---- MODULE Spec2Model ----
(***************************************************************************)
(* Model of the download session of bandcamp_dl_gui.py: the controller     *)
(* (Tk main loop) with its buttons and its queue of posted callbacks, the  *)
(* worker thread running download_album, the callbacks the provider        *)
(* (yt-dlp) makes into match_filter and progress_hook, and the completion  *)
(* handler download_complete.                                              *)
(*                                                                         *)
(* Python None is the empty tuple <<>> for numbers that may be missing     *)
(* (percent, overall percent) and the empty set {} for an optional field   *)
(* of an event (playlist_index).  Floats are exact rationals <<n, d>>.     *)
(***************************************************************************)
EXTENDS Integers, Sequences, FiniteSets, TLC

\* ---- bounds of the model ----
MaxSessions == 2
MaxTracks == 2
MaxBytes == 2
MaxFiles == 1

\* ---- program constants ----
TruncCategory == 200
TruncGeneric == 300
PercentFull == 100

VARIABLES
    \* controller-owned widgets and fields
    is_cancelling, ydl_instance, download_btn, cancel_btn, queue, session,
    \* settings read by the worker
    format_var, skip_postprocessing_var, create_playlist_var, numbering_var,
    \* session fields of the application object
    download_info, album_info_stored, downloaded_files, total_tracks, current_track,
    \* per-worker position and locals of download_album
    pc, pending, existing_files_before,
    \* the provider's position inside ydl.download, per worker
    phase, item_no, item_file, item_bytes, item_total,
    \* the album behind the URL (its number of items) and the file system
    \* under the target root
    album, disk,
    \* the names (without extension) of the audio files under the target
    \* root, as strings, and the number of numbering passes made over them
    folder, passes,
    \* what the provider reports for each item of the album: its title and
    \* its track number (0 when it reports none)
    entries,
    \* the renames of the last numbering pass, in order: <<old, new>>
    renames,
    \* metadata repair: the tags embedded in each mp3 file, the files whose
    \* temporary output (<stem>.tmp.mp3) exists, the files the repair loop has
    \* visited, the files re_embed_mp3_metadata was called on, and what the
    \* media tool did in the last call
    tags, temps, checked, embed_calls, tool_result,
    \* cover art: the image files of one directory with their content, and
    \* whether deduplicate_cover_art has run over it; the files whose unlink
    \* has raised in a run
    images, deduped, unlink_raised,
    \* playlist: the audio files under the download path, each in its
    \* directory; the entries of the playlist file; the directory it is in
    tree, playlist, playlist_dir,
    \* error formatting: the text of an exception, whether it was raised
    \* outside the provider, and the message _format_error_message made of it
    exc_text, exc_unexpected, error_msg,
    \* cover art of FLAC files: the setting that keeps the image files, the
    \* FLAC files under the download path, the image files of each
    \* directory, the files embed_cover_art_ffmpeg returned True for, and
    \* whether process_downloaded_files has run
    download_cover_art_var, flac_files, thumbs, embed_ok, processed,
    \* album-art preview: the flag and the thumbnail URL of the application
    \* object, the metadata-probe threads in flight with their URL, the
    \* fetch_and_display_album_art callbacks posted to the controller, the
    \* download threads in flight, how many threads of each kind were started,
    \* and the download thread started by the call that last set the flag
    album_art_fetching, current_thumbnail_url, probes, art_queue, downloads,
    probe_count, download_count, flag_owner,
    \* values captured by the posted update_progress closure
    percent_posted, overall_posted,
    \* history: what each session posted / was shown, where cancel hit it
    posted, handled, reported, cancel_at, stages_run, late_write, hook_log,
    \* history: the worker-owned fields the controller thread has read or
    \* written while a worker was in its download phase
    controller_access

vars == <<is_cancelling, ydl_instance, download_btn, cancel_btn, queue, session,
          format_var, skip_postprocessing_var, create_playlist_var, numbering_var,
          download_info, album_info_stored, downloaded_files, total_tracks, current_track,
          pc, pending, existing_files_before, phase, item_no, item_file, item_bytes, item_total,
          album, disk, folder, passes, entries, renames,
          tags, temps, checked, embed_calls, tool_result, images, deduped, unlink_raised,
          tree, playlist, playlist_dir,
          exc_text, exc_unexpected, error_msg,
          download_cover_art_var, flac_files, thumbs, embed_ok, processed,
          album_art_fetching, current_thumbnail_url, probes, art_queue, downloads,
          probe_count, download_count, flag_owner,
          percent_posted, overall_posted,
          posted, handled, reported, cancel_at, stages_run, late_write, hook_log,
          controller_access>>

ctrlVars == <<is_cancelling, ydl_instance, download_btn, cancel_btn, queue, session>>
repairVars == <<tags, temps, checked, embed_calls, tool_result>>
coverVars == <<images, deduped, unlink_raised>>
playlistVars == <<tree, playlist, playlist_dir>>
errorVars == <<exc_text, exc_unexpected, error_msg>>
flacVars == <<download_cover_art_var, flac_files, thumbs, embed_ok, processed>>
previewVars == <<album_art_fetching, current_thumbnail_url, probes, art_queue, downloads,
                 probe_count, download_count, flag_owner>>
helperVars == <<errorVars, flacVars, previewVars>>
settingVars == <<format_var, skip_postprocessing_var, create_playlist_var, numbering_var>>
fieldVars == <<download_info, album_info_stored, downloaded_files, total_tracks, current_track>>
providerVars == <<phase, item_no, item_file, item_bytes, item_total>>
workerVars == <<pc, pending, existing_files_before>>
histVars == <<posted, handled, reported, cancel_at, stages_run, late_write, hook_log,
              controller_access>>
uiVars == <<percent_posted, overall_posted>>

Sessions == 1..MaxSessions
None == <<>>
NoIndex == {}

\* ---- exact rational arithmetic standing for Python floats ----
Min(a, b) == IF a <= b THEN a ELSE b
Max(a, b) == IF a >= b THEN a ELSE b
RAdd(a, b) == <<a[1] * b[2] + b[1] * a[2], a[2] * b[2]>>
RDivInt(a, k) == <<a[1], a[2] * k>>
RMulInt(a, k) == <<a[1] * k, a[2]>>
RLeq(a, b) == a[1] * b[2] <= b[1] * a[2]
REq(a, b) == a[1] * b[2] = b[1] * a[2]

\* ---- formats and files ----
DEFAULT_FORMAT == "mp3 (128kbps)"
FORMAT_EXTENSIONS ==
    [k \in {"mp3", "flac", "ogg", "wav"} |->
        CASE k = "mp3" -> {".mp3"}
          [] k = "flac" -> {".flac"}
          [] k = "ogg" -> {".ogg", ".oga"}
          [] k = "wav" -> {".wav"}]
\* dict.get(key, default)
FormatExtensionsGet(key, default) ==
    IF key \in DOMAIN FORMAT_EXTENSIONS THEN FORMAT_EXTENSIONS[key] ELSE default
_extract_format(format_val) ==
    IF format_val = "mp3 (128kbps)" THEN "mp3" ELSE format_val
AllAudioExts == {".mp3", ".flac", ".ogg", ".oga", ".wav"}
\* a file is <<stem, extension>>; the provider fetches stem i as <<i, ".mp3">>
SourceExt == ".mp3"
PlaylistFile == <<0, ".m3u">>
\* Path.rglob("*" + ext) under the target root
Rglob(files, exts) == {f \in files : f[2] \in exts}
\* the file FFmpegExtractAudio leaves for a fetched source file
TargetOf(f, format_val, skip) ==
    IF skip THEN f
    ELSE CASE _extract_format(format_val) = "mp3" -> <<f[1], ".mp3">>
           [] _extract_format(format_val) = "flac" -> <<f[1], ".flac">>
           [] _extract_format(format_val) = "ogg" -> <<f[1], ".ogg">>
           [] OTHER -> <<f[1], ".wav">>

\* ---- error texts and messages ----
\* An error text is the set of category terms it contains and the offset at
\* which its first "cancelled" (any case) ends, 0 when it has none.
Terms == {"network", "access", "notfound", "disk", "format"}
\* Category trying the access terms before the network terms
CategoryAccessFirst(error_str, is_unexpected) ==
    CASE "access" \in error_str.terms -> "Access Error"
      [] "network" \in error_str.terms -> "Network Error"
      [] "notfound" \in error_str.terms -> "Not Found"
      [] "disk" \in error_str.terms -> "Disk Space Error"
      [] "format" \in error_str.terms -> "Format Error"
      [] OTHER -> IF is_unexpected THEN "Unexpected Error" ELSE "Download Error"
Category(error_str, is_unexpected) ==
    CASE "network" \in error_str.terms -> "Network Error"
      [] "access" \in error_str.terms -> "Access Error"
      [] "notfound" \in error_str.terms -> "Not Found"
      [] "disk" \in error_str.terms -> "Disk Space Error"
      [] "format" \in error_str.terms -> "Format Error"
      [] OTHER -> IF is_unexpected THEN "Unexpected Error" ELSE "Download Error"
\* the message quotes error_str[:200] in a category, error_str[:300] otherwise
_format_error_message(error_str, is_unexpected) ==
    LET cat == Category(error_str, is_unexpected)
        cut == IF cat \in {"Unexpected Error", "Download Error"}
               THEN TruncGeneric ELSE TruncCategory
    IN [template |-> cat,
        quotes_cancelled |-> error_str.cancelled_end > 0 /\ error_str.cancelled_end <= cut]
FixedMessage(t) == [template |-> t, quotes_cancelled |-> FALSE]
MsgCancelled == FixedMessage("Download cancelled by user.")
MsgInterrupted == FixedMessage("Download interrupted by user.")
MsgNoFiles == FixedMessage("No files were downloaded.")
MsgComplete == FixedMessage("Download complete!")
\* "cancelled" in message.lower()
ContainsCancelled(message) ==
    message.template = "Download cancelled by user." \/ message.quotes_cancelled
\* the dialog download_complete shows
Outcome(success, message) ==
    IF success THEN "Success"
    ELSE IF ContainsCancelled(message) THEN "Cancelled" ELSE "Error"

NoPending == [kind |-> "none", text |-> [terms |-> {}, cancelled_end |-> 0]]
NoHook == [fn |-> "none", status |-> "", filename |-> <<>>,
           pending_cancel |-> FALSE, blocked |-> FALSE]

\* a session is open from start_download until a completion notification
\* of its own has been handled
Open(sid) == pc[sid] \notin {"idle", "closed"} /\ handled[sid] = 0
BeforeReturn(sid) == pc[sid] \in {"init", "quick", "full", "snapshot", "download", "except"}
PendingCancel(sid) == cancel_at[sid] # "none" /\ handled[sid] = 0
\* the worker is between the creation of the provider instance and the end
\* of the finally block, and no notification of its session has been handled
InDownloadPhase(sid) == pc[sid] \in {"download", "except", "finally"} /\ handled[sid] = 0

Post(sid, success, message) ==
    /\ queue' = Append(queue, [sid |-> sid, success |-> success, message |-> message])
    /\ posted' = [posted EXCEPT ![sid] = @ + 1]

\* a write of an output file by session sid, noted when it follows a cancel
NoteWrite(sid, wrote) ==
    late_write' = [late_write EXCEPT ![sid] = @ \/ (wrote /\ cancel_at[sid] # "none")]

\* ================= controller thread =================

\* a session whose worker has ended and whose notifications are all handled
Closed(sid) == pc[sid] = "done" /\ handled[sid] = posted[sid]
Forget(h, init) == [sid \in Sessions |-> IF Closed(sid) THEN init ELSE h[sid]]

\* a slot of the model that a new session can take: never used, or its
\* session is over
Free(sid) == pc[sid] \in {"idle", "closed"} \/ Closed(sid)

\* start_download: the command of the download button.  session counts the
\* sessions started in the behaviour; the new one takes the first free slot.
\* The history and the thread locals of the sessions that are over are
\* dropped: download_thread is overwritten.
start_download ==
    /\ download_btn = "normal"
    /\ session < MaxSessions
    /\ session' = session + 1
    /\ \E new \in Sessions :
         /\ Free(new)
         /\ \A sid \in Sessions : Free(sid) => new <= sid
         /\ pc' = [sid \in Sessions |->
                     IF sid = new THEN "init"
                     ELSE IF Closed(sid) THEN "closed" ELSE pc[sid]]
    /\ download_btn' = "disabled"
    /\ cancel_btn' = "normal"
    /\ is_cancelling' = FALSE
    /\ percent_posted' = None
    /\ overall_posted' = None
    /\ posted' = Forget(posted, 0)
    /\ handled' = Forget(handled, 0)
    /\ reported' = Forget(reported, {})
    /\ cancel_at' = Forget(cancel_at, "none")
    /\ stages_run' = Forget(stages_run, {})
    /\ late_write' = Forget(late_write, FALSE)
    /\ hook_log' = NoHook
    /\ pending' = Forget(pending, NoPending)
    /\ existing_files_before' = Forget(existing_files_before, {})
    /\ phase' = Forget(phase, "filter")
    /\ item_no' = Forget(item_no, 0)
    /\ item_file' = Forget(item_file, 1)
    /\ item_bytes' = Forget(item_bytes, 0)
    /\ item_total' = Forget(item_total, 0)
    /\ UNCHANGED <<ydl_instance, queue, settingVars, fieldVars, album, folder, passes, entries, renames, repairVars, coverVars, playlistVars, helperVars, disk,
                   controller_access>>

\* cancel_download: the command of the cancel button.  The call of
\* ydl_instance.cancel_download() is inside try/except and changes nothing here.
cancel_download ==
    /\ cancel_btn # "hidden"
    /\ IF ~is_cancelling
       THEN /\ is_cancelling' = TRUE
            /\ cancel_btn' = "disabled"
            /\ cancel_at' = [sid \in Sessions |->
                   IF Open(sid) /\ cancel_at[sid] = "none"
                   THEN (IF BeforeReturn(sid) THEN "early" ELSE "late")
                   ELSE cancel_at[sid]]
            \* line 1239: if self.ydl_instance
            /\ controller_access' = controller_access \cup
                   (IF \E sid \in Sessions : InDownloadPhase(sid)
                    THEN {"ydl_instance"} ELSE {})
       ELSE UNCHANGED <<is_cancelling, cancel_btn, cancel_at, controller_access>>
    /\ UNCHANGED <<ydl_instance, download_btn, queue, session, settingVars, fieldVars,
                   workerVars, providerVars, album, folder, passes, entries, renames, repairVars, coverVars, playlistVars, helperVars, disk, uiVars,
                   posted, handled, reported, stages_run, late_write, hook_log>>

\* download_complete(success, message), run from the head of the Tk queue
download_complete ==
    /\ queue # <<>>
    /\ LET n == Head(queue) IN
        /\ is_cancelling' = FALSE
        /\ ydl_instance' = 0
        /\ cancel_btn' = "hidden"
        /\ download_btn' = "normal"
        /\ queue' = Tail(queue)
        /\ handled' = [handled EXCEPT ![n.sid] = @ + 1]
        /\ reported' = [reported EXCEPT ![n.sid] = @ \cup {Outcome(n.success, n.message)}]
        \* line 3226 writes ydl_instance, whichever session the notification is of
        /\ controller_access' = controller_access \cup
               (IF \E sid \in Sessions \ {n.sid} : InDownloadPhase(sid)
                THEN {"ydl_instance"} ELSE {})
    /\ UNCHANGED <<session, settingVars, fieldVars, workerVars, providerVars, album, folder, passes, entries, renames, repairVars, coverVars, playlistVars, helperVars, disk, uiVars,
                   posted, cancel_at, stages_run, late_write, hook_log>>

\* ================= worker thread: download_album =================

\* lines 2723-2840: settings read, session fields reset
WorkerInit(sid) ==
    /\ pc[sid] = "init"
    /\ download_info' = {}
    /\ album_info_stored' = FALSE
    /\ downloaded_files' = {}
    /\ total_tracks' = 0
    /\ current_track' = 0
    /\ pc' = [pc EXCEPT ![sid] = "quick"]
    /\ UNCHANGED <<ctrlVars, settingVars, pending, existing_files_before, providerVars,
                   album, folder, passes, entries, renames, repairVars, coverVars, playlistVars, helperVars, disk, uiVars, histVars>>

\* phase 1: flat extraction; a failure is swallowed
QuickExtract(sid) ==
    /\ pc[sid] = "quick"
    /\ \E ok \in BOOLEAN :
         total_tracks' = IF ok THEN album ELSE total_tracks
    /\ pc' = [pc EXCEPT ![sid] = "full"]
    /\ UNCHANGED <<ctrlVars, settingVars, download_info, album_info_stored, downloaded_files,
                   current_track, pending, existing_files_before, providerVars,
                   album, folder, passes, entries, renames, repairVars, coverVars, playlistVars, helperVars, disk, uiVars, histVars>>

\* FullExtract without the try/except around the full phase: its failure
\* reaches the outer handler of download_album and ends the session
FullExtractUncaught(sid) ==
    /\ pc[sid] = "full"
    /\ \E ok \in BOOLEAN :
         IF ok
         THEN /\ album_info_stored' = TRUE
              /\ total_tracks' = IF total_tracks = 0 THEN album ELSE total_tracks
              /\ download_info' = 1..album
              /\ pc' = [pc EXCEPT ![sid] = "snapshot"]
              /\ UNCHANGED <<queue, posted>>
         ELSE /\ Post(sid, FALSE, FixedMessage("Unexpected Error"))
              /\ pc' = [pc EXCEPT ![sid] = "done"]
              /\ UNCHANGED <<album_info_stored, total_tracks, download_info>>
    /\ UNCHANGED <<is_cancelling, ydl_instance, download_btn, cancel_btn, session,
                   settingVars, downloaded_files, current_track, pending,
                   existing_files_before, providerVars, album, folder, passes, entries, renames, repairVars, coverVars, playlistVars, helperVars, disk, uiVars,
                   handled, controller_access, reported, cancel_at, stages_run, late_write, hook_log>>

\* phase 2: full extraction; a failure leaves the catalog empty
FullExtract(sid) ==
    /\ pc[sid] = "full"
    /\ \E ok \in BOOLEAN :
         IF ok
         THEN /\ album_info_stored' = TRUE
              /\ total_tracks' = IF total_tracks = 0 THEN album ELSE total_tracks
              /\ download_info' = 1..album
         ELSE UNCHANGED <<album_info_stored, total_tracks, download_info>>
    /\ pc' = [pc EXCEPT ![sid] = "snapshot"]
    /\ UNCHANGED <<ctrlVars, settingVars, downloaded_files, current_track, pending,
                   existing_files_before, providerVars, album, folder, passes, entries, renames, repairVars, coverVars, playlistVars, helperVars, disk, uiVars, histVars>>

\* the extensions the snapshot before the download step globs for
BeforeExts(format_val) == FormatExtensionsGet(format_val, {})
\* the extensions the snapshot after the download step globs for
AfterExts(format_val, skip_postprocessing) ==
    IF skip_postprocessing THEN AllAudioExts ELSE FormatExtensionsGet(format_val, {})

\* lines 2928-2940: snapshot of the audio files, provider instance stored
Snapshot(sid) ==
    /\ pc[sid] = "snapshot"
    /\ existing_files_before' = [existing_files_before EXCEPT
           ![sid] = Rglob(disk, BeforeExts(format_var))]
    /\ ydl_instance' = sid
    /\ phase' = [phase EXCEPT ![sid] = "filter"]
    /\ item_no' = [item_no EXCEPT ![sid] = 0]
    /\ pc' = [pc EXCEPT ![sid] = "download"]
    /\ UNCHANGED <<is_cancelling, download_btn, cancel_btn, queue, session, settingVars,
                   fieldVars, pending, item_file, item_bytes, item_total, album, folder, passes, entries, renames, repairVars, coverVars, playlistVars, helperVars, disk, uiVars, histVars>>

\* ================= provider callbacks inside ydl.download =================

\* match_filter(info_dict): the provider asks before it fetches the next item
match_filter(sid, totals) ==
    /\ pc[sid] = "download"
    /\ phase[sid] = "filter"
    /\ item_no[sid] < album
    /\ item_no' = [item_no EXCEPT ![sid] = @ + 1]
    /\ hook_log' = [fn |-> "match_filter", status |-> "", filename |-> <<>>,
                    pending_cancel |-> PendingCancel(sid), blocked |-> is_cancelling]
    /\ IF is_cancelling
       THEN \* "Cancelled by user": the provider skips the item
            UNCHANGED <<phase, item_file, item_bytes, item_total>>
       ELSE \E f \in 1..MaxFiles, t \in totals :
              /\ phase' = [phase EXCEPT ![sid] = "fetch"]
              /\ item_file' = [item_file EXCEPT ![sid] = f]
              /\ item_total' = [item_total EXCEPT ![sid] = t]
              /\ item_bytes' = [item_bytes EXCEPT ![sid] = 0]
    /\ UNCHANGED <<ctrlVars, settingVars, fieldVars, workerVars, album, folder, passes, entries, renames, repairVars, coverVars, playlistVars, helperVars, disk, uiVars,
                   posted, handled, controller_access, reported, cancel_at, stages_run, late_write>>

\* Percent with percent initialised to 0.0 instead of None
PercentStartsAtZero(downloaded, total) ==
    IF total > 0
    THEN <<Min(PercentFull * total, Max(0, downloaded * PercentFull)), total>>
    ELSE <<0, 1>>

\* percent = min(100.0, max(0.0, (downloaded / total) * 100.0)) when total > 0
Percent(downloaded, total) ==
    IF total > 0
    THEN <<Min(PercentFull * total, Max(0, downloaded * PercentFull)), total>>
    ELSE None

\* overall album progress, lines 3117-3126
OverallPercent(track, tracks, percent) ==
    IF tracks > 0
    THEN LET completed_tracks == <<track, 1>>
             current_track_progress ==
                 IF percent # None THEN RDivInt(percent, PercentFull) ELSE <<0, 1>>
             overall_progress == RDivInt(RAdd(completed_tracks, current_track_progress), tracks)
         IN RMulInt(overall_progress, PercentFull)
    ELSE None

\* lines 3061-3066: the index the downloading event leaves in current_track
TrackAfterDownloading(track, playlist_index) ==
    IF playlist_index # NoIndex
    THEN LET i == CHOOSE x \in playlist_index : TRUE
         IN IF i # track THEN i ELSE track
    ELSE track

\* TrackAfterFinished with the cap at total_tracks instead of total_tracks - 1
TrackAfterFinishedCapTotal(track, tracks) ==
    IF track < tracks THEN track + 1 ELSE track

\* lines 3167-3168: the index a finished event leaves in current_track
TrackAfterFinished(track, tracks) ==
    IF track < tracks - 1 THEN track + 1 ELSE track

\* the events the provider can deliver to the hook at its position
Events(sid, indices, cap) ==
    IF phase[sid] = "fetch"
    THEN {[status |-> "downloading", playlist_index |-> i, downloaded_bytes |-> b,
           total_bytes |-> item_total[sid], filename |-> <<>>] :
              i \in indices,
              b \in item_bytes[sid]..(IF item_total[sid] > 0 THEN item_total[sid] ELSE cap)}
         \cup {[status |-> "error", playlist_index |-> NoIndex, downloaded_bytes |-> 0,
                total_bytes |-> 0, filename |-> <<>>]}
    ELSE IF phase[sid] = "finishing"
    THEN {[status |-> "finished", playlist_index |-> NoIndex,
           downloaded_bytes |-> item_bytes[sid], total_bytes |-> item_total[sid],
           filename |-> fn] : fn \in {<<>>, <<item_file[sid], SourceExt>>}}
    ELSE {}

\* the error branch counting the item as a finished event does
ErrorEventCountsTrack(sid) ==
    /\ phase' = [phase EXCEPT ![sid] = "filter"]
    /\ current_track' = TrackAfterFinished(current_track, total_tracks)
    /\ UNCHANGED <<download_info, album_info_stored, downloaded_files, total_tracks,
                   item_no, item_file, item_bytes, item_total, uiVars>>

\* lines 3182-3184, status "error": one log line; with ignoreerrors the
\* provider gives the item up and goes on to the next
ErrorEvent(sid) ==
    /\ phase' = [phase EXCEPT ![sid] = "filter"]
    /\ UNCHANGED <<fieldVars, item_no, item_file, item_bytes, item_total, uiVars>>

\* progress_hook(d)
progress_hook(sid, d) ==
    /\ pc[sid] = "download"
    /\ hook_log' = [fn |-> "progress_hook", status |-> d.status, filename |-> d.filename,
                    pending_cancel |-> PendingCancel(sid), blocked |-> is_cancelling]
    /\ IF is_cancelling
       THEN \* raise KeyboardInterrupt: ydl.download unwinds
            /\ pc' = [pc EXCEPT ![sid] = "except"]
            /\ UNCHANGED <<fieldVars, providerVars, uiVars>>
       ELSE /\ pc' = pc
            /\ CASE d.status = "downloading" ->
                      LET track == TrackAfterDownloading(current_track, d.playlist_index)
                          percent == Percent(d.downloaded_bytes, d.total_bytes)
                      IN /\ current_track' = track
                         /\ percent_posted' = percent
                         /\ overall_posted' = OverallPercent(track, total_tracks, percent)
                         /\ item_bytes' = [item_bytes EXCEPT ![sid] = d.downloaded_bytes]
                         /\ UNCHANGED <<download_info, album_info_stored, downloaded_files,
                                        total_tracks, phase, item_no, item_file, item_total>>
                 [] d.status = "finished" ->
                      /\ current_track' = TrackAfterFinished(current_track, total_tracks)
                      /\ downloaded_files' = IF d.filename # <<>>
                                             THEN downloaded_files \cup {d.filename}
                                             ELSE downloaded_files
                      /\ phase' = [phase EXCEPT ![sid] = "post"]
                      /\ UNCHANGED <<download_info, album_info_stored, total_tracks,
                                     item_no, item_file, item_bytes, item_total, uiVars>>
                 [] OTHER -> ErrorEvent(sid)
    /\ UNCHANGED <<ctrlVars, settingVars, pending, existing_files_before, album, folder, passes, entries, renames, repairVars, coverVars, playlistVars, helperVars, disk,
                   posted, handled, controller_access, reported, cancel_at, stages_run, late_write>>

\* the provider has received the whole item and moves it to its final name
ProviderCompletesFile(sid) ==
    /\ pc[sid] = "download"
    /\ phase[sid] = "fetch"
    /\ disk' = disk \cup {<<item_file[sid], SourceExt>>}
    /\ NoteWrite(sid, TRUE)
    /\ phase' = [phase EXCEPT ![sid] = "finishing"]
    /\ UNCHANGED <<ctrlVars, settingVars, fieldVars, workerVars, item_no, item_file, item_bytes,
                   item_total, uiVars, posted, handled, controller_access, reported, cancel_at, stages_run,
                   hook_log, album, folder, passes, entries, renames, repairVars, coverVars, playlistVars, helperVars>>

\* the postprocessors of ydl_opts run on the fetched item
ProviderPostprocess(sid) ==
    /\ pc[sid] = "download"
    /\ phase[sid] = "post"
    /\ LET src == <<item_file[sid], SourceExt>>
       IN disk' = (disk \ {src}) \cup {TargetOf(src, format_var, skip_postprocessing_var)}
    /\ NoteWrite(sid, TRUE)
    /\ phase' = [phase EXCEPT ![sid] = "filter"]
    /\ UNCHANGED <<ctrlVars, settingVars, fieldVars, workerVars, item_no, item_file, item_bytes,
                   item_total, uiVars, posted, handled, controller_access, reported, cancel_at, stages_run,
                   hook_log, album, folder, passes, entries, renames, repairVars, coverVars, playlistVars, helperVars>>

\* ydl.download([url]) returns
DownloadReturns(sid) ==
    /\ pc[sid] = "download"
    /\ phase[sid] = "filter"
    /\ item_no[sid] = album
    /\ pc' = [pc EXCEPT ![sid] = "finally"]
    /\ pending' = [pending EXCEPT ![sid] = NoPending]
    /\ UNCHANGED <<ctrlVars, settingVars, fieldVars, existing_files_before, providerVars,
                   album, folder, passes, entries, renames, repairVars, coverVars, playlistVars, helperVars, disk, uiVars, histVars>>

\* ydl.download([url]) raises DownloadError or another Exception
DownloadRaises(sid, kind, text) ==
    /\ pc[sid] = "download"
    /\ pc' = [pc EXCEPT ![sid] = "finally"]
    /\ pending' = [pending EXCEPT ![sid] = [kind |-> kind, text |-> text]]
    /\ UNCHANGED <<ctrlVars, settingVars, fieldVars, existing_files_before, providerVars,
                   album, folder, passes, entries, renames, repairVars, coverVars, playlistVars, helperVars, disk, uiVars, histVars>>

\* except KeyboardInterrupt, lines 2944-2952
ExceptKeyboardInterrupt(sid) ==
    /\ pc[sid] = "except"
    /\ pc' = [pc EXCEPT ![sid] = "finally"]
    /\ IF is_cancelling
       THEN /\ ydl_instance' = 0
            /\ Post(sid, FALSE, MsgCancelled)
            /\ pending' = [pending EXCEPT ![sid] = [NoPending EXCEPT !.kind = "return"]]
       ELSE /\ pending' = [pending EXCEPT
                   ![sid] = [NoPending EXCEPT !.kind = "KeyboardInterrupt"]]
            /\ UNCHANGED <<ydl_instance, queue, posted>>
    /\ UNCHANGED <<is_cancelling, download_btn, cancel_btn, session, settingVars, fieldVars,
                   existing_files_before, providerVars, album, folder, passes, entries, renames, repairVars, coverVars, playlistVars, helperVars, disk, uiVars,
                   handled, controller_access, reported, cancel_at, stages_run, late_write, hook_log>>

\* the message the outer handlers of download_album post for a pending exception
HandlerMessage(p) ==
    CASE p.kind = "DownloadError" -> _format_error_message(p.text, FALSE)
      [] p.kind = "KeyboardInterrupt" -> MsgInterrupted
      [] OTHER -> _format_error_message(p.text, TRUE)

\* Finally with a cancellation branch that returns without a notification
FinallySilent(sid) ==
    /\ pc[sid] = "finally"
    /\ ydl_instance' = 0
    /\ IF is_cancelling
       THEN /\ pc' = [pc EXCEPT ![sid] = "done"]
            /\ UNCHANGED <<queue, posted>>
       ELSE CASE pending[sid].kind = "none" ->
                   /\ pc' = [pc EXCEPT ![sid] = "verify"]
                   /\ UNCHANGED <<queue, posted>>
              [] pending[sid].kind = "return" ->
                   /\ pc' = [pc EXCEPT ![sid] = "done"]
                   /\ UNCHANGED <<queue, posted>>
              [] OTHER ->
                   /\ Post(sid, FALSE, HandlerMessage(pending[sid]))
                   /\ pc' = [pc EXCEPT ![sid] = "done"]
    /\ pending' = [pending EXCEPT ![sid] = NoPending]
    /\ UNCHANGED <<is_cancelling, download_btn, cancel_btn, session, settingVars, fieldVars,
                   existing_files_before, providerVars, album, folder, passes, entries, renames, repairVars, coverVars, playlistVars, helperVars, disk, uiVars,
                   handled, controller_access, reported, cancel_at, stages_run, late_write, hook_log>>

\* finally, lines 2953-2960, and what follows it: the pending return, the
\* outer except handlers (3015-3023), or the code after the try statement
Finally(sid) ==
    /\ pc[sid] = "finally"
    /\ ydl_instance' = 0
    /\ IF is_cancelling
       THEN \* the return inside finally discards a pending exception
            /\ Post(sid, FALSE, MsgCancelled)
            /\ pc' = [pc EXCEPT ![sid] = "done"]
       ELSE CASE pending[sid].kind = "none" ->
                   /\ pc' = [pc EXCEPT ![sid] = "verify"]
                   /\ UNCHANGED <<queue, posted>>
              [] pending[sid].kind = "return" ->
                   /\ pc' = [pc EXCEPT ![sid] = "done"]
                   /\ UNCHANGED <<queue, posted>>
              [] OTHER ->
                   /\ Post(sid, FALSE, HandlerMessage(pending[sid]))
                   /\ pc' = [pc EXCEPT ![sid] = "done"]
    /\ pending' = [pending EXCEPT ![sid] = NoPending]
    /\ UNCHANGED <<is_cancelling, download_btn, cancel_btn, session, settingVars, fieldVars,
                   existing_files_before, providerVars, album, folder, passes, entries, renames, repairVars, coverVars, playlistVars, helperVars, disk, uiVars,
                   handled, controller_access, reported, cancel_at, stages_run, late_write, hook_log>>

\* lines 2962-2998: were files produced?
FilesDownloaded(sid) ==
    LET existing_files_after == Rglob(disk, AfterExts(format_var, skip_postprocessing_var))
        new_files == existing_files_after \ existing_files_before[sid]
    IN new_files # {} \/ (\E file_path \in downloaded_files : file_path \in disk)

Verify(sid) ==
    /\ pc[sid] = "verify"
    /\ IF ~FilesDownloaded(sid)
       THEN /\ Post(sid, FALSE, MsgNoFiles)
            /\ pc' = [pc EXCEPT ![sid] = "done"]
       ELSE /\ pc' = [pc EXCEPT ![sid] =
                   IF _extract_format(format_var) = "mp3" THEN "repair" ELSE "process"]
            /\ UNCHANGED <<queue, posted>>
    /\ UNCHANGED <<is_cancelling, ydl_instance, download_btn, cancel_btn, session, settingVars,
                   fieldVars, pending, existing_files_before, providerVars, album, folder, passes, entries, renames, repairVars, coverVars, playlistVars, helperVars, disk, uiVars,
                   handled, controller_access, reported, cancel_at, stages_run, late_write, hook_log>>

\* The post-download stages.  Each does its file work inside try/except: a
\* failure is logged and the stage returns; "failed" in stages_run notes it.
StageResults == {"nothing", "wrote", "failed"}
StageDone(sid, stage, result) ==
    /\ stages_run' = [stages_run EXCEPT
           ![sid] = @ \cup {stage} \cup (IF result = "failed" THEN {"failed"} ELSE {})]
    /\ NoteWrite(sid, result = "wrote")

\* verify_and_fix_mp3_metadata(download_path): may re-embed (rewrite) a file
StageRepair(sid) ==
    /\ pc[sid] = "repair"
    /\ \E result \in StageResults : StageDone(sid, "repair", result)
    /\ pc' = [pc EXCEPT ![sid] = "process"]
    /\ UNCHANGED <<ctrlVars, settingVars, fieldVars, pending, existing_files_before,
                   providerVars, album, folder, passes, entries, renames, repairVars, coverVars, playlistVars, helperVars, disk, uiVars, posted, handled, controller_access,
                   reported, cancel_at, hook_log>>

\* process_downloaded_files(download_path), line 2223: apply_track_numbering
\* may rename files
StageNumbering(sid) ==
    /\ pc[sid] = "process"
    /\ \E result \in StageResults : StageDone(sid, "numbering", result)
    /\ pc' = [pc EXCEPT ![sid] = "cover"]
    /\ UNCHANGED <<ctrlVars, settingVars, fieldVars, pending, existing_files_before,
                   providerVars, album, folder, passes, entries, renames, repairVars, coverVars, playlistVars, helperVars, disk, uiVars, posted, handled, controller_access,
                   reported, cancel_at, hook_log>>

\* StageCoverArt returning straight to the success notification
StageCoverArtSkipsPlaylist(sid) ==
    /\ pc[sid] = "cover"
    /\ \E result \in StageResults : StageDone(sid, "cover", result)
    /\ pc' = [pc EXCEPT ![sid] = "success"]
    /\ UNCHANGED <<ctrlVars, settingVars, fieldVars, pending, existing_files_before,
                   providerVars, album, folder, passes, entries, renames, repairVars, coverVars, playlistVars, helperVars, disk, uiVars, posted, handled, controller_access,
                   reported, cancel_at, hook_log>>

\* process_downloaded_files(download_path), lines 2225-2361: cover art is
\* embedded, deduplicated or deleted; then line 3009
StageCoverArt(sid) ==
    /\ pc[sid] = "cover"
    /\ \E result \in StageResults : StageDone(sid, "cover", result)
    /\ pc' = [pc EXCEPT ![sid] = IF create_playlist_var THEN "playlist" ELSE "success"]
    /\ UNCHANGED <<ctrlVars, settingVars, fieldVars, pending, existing_files_before,
                   providerVars, album, folder, passes, entries, renames, repairVars, coverVars, playlistVars, helperVars, disk, uiVars, posted, handled, controller_access,
                   reported, cancel_at, hook_log>>

\* StagePlaylist without its try/except: the failure reaches the handler of
\* line 3021 and the session ends as an error
StagePlaylistUncaught(sid) ==
    /\ pc[sid] = "playlist"
    /\ LET audio_files == Rglob(disk, FormatExtensionsGet(_extract_format(format_var), {".mp3"}))
       IN \E failed \in BOOLEAN :
            IF failed
            THEN /\ StageDone(sid, "playlist", "failed")
                 /\ Post(sid, FALSE, FixedMessage("Unexpected Error"))
                 /\ pc' = [pc EXCEPT ![sid] = "done"]
                 /\ UNCHANGED disk
            ELSE /\ disk' = IF audio_files # {} THEN disk \cup {PlaylistFile} ELSE disk
                 /\ StageDone(sid, "playlist", IF audio_files # {} THEN "wrote" ELSE "nothing")
                 /\ pc' = [pc EXCEPT ![sid] = "success"]
                 /\ UNCHANGED <<queue, posted>>
    /\ UNCHANGED <<is_cancelling, ydl_instance, download_btn, cancel_btn, session,
                   settingVars, fieldVars, pending, existing_files_before,
                   providerVars, uiVars, handled, controller_access, reported, cancel_at,
                   hook_log, album, folder, passes, entries, renames, repairVars, coverVars, playlistVars, helperVars>>

\* create_playlist_file(download_path, base_format): writes the playlist when
\* audio files of the format exist
StagePlaylist(sid) ==
    /\ pc[sid] = "playlist"
    /\ LET audio_files == Rglob(disk, FormatExtensionsGet(_extract_format(format_var), {".mp3"}))
       IN \E failed \in BOOLEAN :
            IF failed
            THEN /\ StageDone(sid, "playlist", "failed")
                 /\ UNCHANGED disk
            ELSE /\ disk' = IF audio_files # {} THEN disk \cup {PlaylistFile} ELSE disk
                 /\ StageDone(sid, "playlist", IF audio_files # {} THEN "wrote" ELSE "nothing")
    /\ pc' = [pc EXCEPT ![sid] = "success"]
    /\ UNCHANGED <<ctrlVars, settingVars, fieldVars, pending, existing_files_before,
                   providerVars, uiVars, posted, handled, controller_access, reported, cancel_at,
                   hook_log, album, folder, passes, entries, renames, repairVars, coverVars, playlistVars, helperVars>>

\* line 3013
PostSuccess(sid) ==
    /\ pc[sid] = "success"
    /\ Post(sid, TRUE, MsgComplete)
    /\ pc' = [pc EXCEPT ![sid] = "done"]
    /\ UNCHANGED <<is_cancelling, ydl_instance, download_btn, cancel_btn, session, settingVars,
                   fieldVars, pending, existing_files_before, providerVars, album, folder, passes, entries, renames, repairVars, coverVars, playlistVars, helperVars, disk, uiVars,
                   handled, controller_access, reported, cancel_at, stages_run, late_write, hook_log>>

\* ================= specifications =================

\* numbering switched off (DEFAULT_NUMBERING) and no file names kept
NoNumbering ==
    /\ numbering_var = "None"
    /\ folder = {}
    /\ passes = 0
    /\ entries = <<>>
    /\ renames = <<>>

\* the outcome of one run of the media tool and of the file operations
\* after it: exit status, whether the output file was written, and the
\* operation that raised, if any
NoTool == [returncode |-> 0, output |-> FALSE, raises |-> "none"]

\* no metadata repair under way
NoRepair ==
    /\ tags = <<>>
    /\ temps = {}
    /\ checked = {}
    /\ embed_calls = {}
    /\ tool_result = NoTool

\* no cover art looked at
NoCover ==
    /\ images = <<>>
    /\ deduped = FALSE
    /\ unlink_raised = {}

\* no playlist written
NoPlaylist ==
    /\ tree = {}
    /\ playlist = <<>>
    /\ playlist_dir = <<>>

\* no error text has been formatted
NoError ==
    /\ exc_text = <<>>
    /\ exc_unexpected = FALSE
    /\ error_msg = None
\* no FLAC file is being processed
NoFlac ==
    /\ download_cover_art_var = FALSE
    /\ flac_files = {}
    /\ thumbs = <<>>
    /\ embed_ok = {}
    /\ processed = FALSE
\* the album-art preview after __init__, lines 190-196
NoPreview ==
    /\ album_art_fetching = FALSE
    /\ current_thumbnail_url = 0
    /\ probes = <<>>
    /\ art_queue = <<>>
    /\ downloads = {}
    /\ probe_count = 0
    /\ download_count = 0
    /\ flag_owner = 0
NoHelper == NoError /\ NoFlac /\ NoPreview

InitCommon ==
    /\ is_cancelling = FALSE
    /\ ydl_instance = 0
    /\ queue = <<>>
    /\ album_info_stored = FALSE
    /\ downloaded_files = {}
    /\ total_tracks = 0
    /\ current_track = 0
    /\ pending = [sid \in Sessions |-> NoPending]
    /\ existing_files_before = [sid \in Sessions |-> {}]
    /\ phase = [sid \in Sessions |-> "filter"]
    /\ item_no = [sid \in Sessions |-> 0]
    /\ item_file = [sid \in Sessions |-> 1]
    /\ item_bytes = [sid \in Sessions |-> 0]
    /\ item_total = [sid \in Sessions |-> 0]
    /\ percent_posted = None
    /\ overall_posted = None
    /\ posted = [sid \in Sessions |-> 0]
    /\ handled = [sid \in Sessions |-> 0]
    /\ reported = [sid \in Sessions |-> {}]
    /\ cancel_at = [sid \in Sessions |-> "none"]
    /\ stages_run = [sid \in Sessions |-> {}]
    /\ late_write = [sid \in Sessions |-> FALSE]
    /\ hook_log = NoHook
    /\ controller_access = {}

\* the application after __init__: no session yet
Init ==
    /\ InitCommon
    /\ download_btn = "normal"
    /\ cancel_btn = "hidden"
    /\ session = 0
    /\ format_var = DEFAULT_FORMAT
    /\ skip_postprocessing_var = FALSE
    /\ create_playlist_var = TRUE
    /\ album = 1
    /\ disk = {}
    /\ download_info = {}
    /\ NoNumbering
    /\ NoRepair
    /\ NoCover
    /\ NoPlaylist
    /\ NoHelper
    /\ pc = [sid \in Sessions |-> "idle"]

\* provider inputs of the session specification: no index, no sizes
SessionIndices == {NoIndex}
SessionTotals == {0}
\* an error text without "cancelled", and one that has it within the first 200 characters
SessionErrors == [terms : {{}}, cancelled_end : {0, 150}]

Next ==
    \/ start_download
    \/ cancel_download
    \/ download_complete
    \/ \E sid \in Sessions :
         \/ WorkerInit(sid)
         \/ QuickExtract(sid)
         \/ FullExtract(sid)
         \/ Snapshot(sid)
         \/ match_filter(sid, SessionTotals)
         \/ \E d \in Events(sid, SessionIndices, 0) : progress_hook(sid, d)
         \/ ProviderCompletesFile(sid)
         \/ ProviderPostprocess(sid)
         \/ DownloadReturns(sid)
         \/ \E kind \in {"DownloadError", "Exception"}, text \in SessionErrors :
               DownloadRaises(sid, kind, text)
         \/ ExceptKeyboardInterrupt(sid)
         \/ Finally(sid)
         \/ Verify(sid)
         \/ StageRepair(sid)
         \/ StageNumbering(sid)
         \/ StageCoverArt(sid)
         \/ StagePlaylist(sid)
         \/ PostSuccess(sid)

Spec == Init /\ [][Next]_vars

\* ---- the progress reduction of one session, with the provider's full events ----

\* the application right after start_download of its first session
InitProgress ==
    /\ InitCommon
    /\ download_btn = "disabled"
    /\ cancel_btn = "normal"
    /\ session = 1
    /\ format_var = DEFAULT_FORMAT
    /\ skip_postprocessing_var = FALSE
    /\ create_playlist_var = TRUE
    /\ album \in 1..MaxTracks
    /\ disk = {}
    /\ download_info = {}
    /\ NoNumbering
    /\ NoRepair
    /\ NoCover
    /\ NoPlaylist
    /\ NoHelper
    /\ pc = [sid \in Sessions |-> IF sid = 1 THEN "init" ELSE "idle"]

ProgressIndices == {NoIndex} \cup {{i} : i \in 0..(MaxTracks + 1)}
ProgressTotals == 0..MaxBytes

NextProgress ==
    \/ WorkerInit(1)
    \/ QuickExtract(1)
    \/ FullExtract(1)
    \/ Snapshot(1)
    \/ match_filter(1, ProgressTotals)
    \/ \E d \in Events(1, ProgressIndices, MaxBytes) : progress_hook(1, d)
    \/ ProviderCompletesFile(1)
    \/ ProviderPostprocess(1)

SpecProgress == InitProgress /\ [][NextProgress]_vars

\* ---- one session under every setting, with files already under the root ----

\* the values of the format combobox
Formats == {"mp3 (128kbps)", "flac", "ogg", "wav"}
\* audio files under the target root before the session: their stem is 0,
\* the provider names the files it fetches 1..MaxFiles
PreExistingFiles == {<<0, ".mp3">>, <<0, ".flac">>}

\* the application right after start_download of its first session
InitSession ==
    /\ InitCommon
    /\ download_btn = "disabled"
    /\ cancel_btn = "normal"
    /\ session = 1
    /\ format_var \in Formats
    /\ skip_postprocessing_var \in BOOLEAN
    /\ create_playlist_var \in BOOLEAN
    /\ album = 1
    /\ disk \in SUBSET PreExistingFiles
    /\ download_info = {}
    /\ NoNumbering
    /\ NoRepair
    /\ NoCover
    /\ NoPlaylist
    /\ NoHelper
    /\ pc = [sid \in Sessions |-> IF sid = 1 THEN "init" ELSE "idle"]

NextSession ==
    \/ cancel_download
    \/ download_complete
    \/ WorkerInit(1)
    \/ QuickExtract(1)
    \/ FullExtract(1)
    \/ Snapshot(1)
    \/ match_filter(1, SessionTotals)
    \/ \E d \in Events(1, SessionIndices, 0) : progress_hook(1, d)
    \/ ProviderCompletesFile(1)
    \/ ProviderPostprocess(1)
    \/ DownloadReturns(1)
    \/ \E kind \in {"DownloadError", "Exception"}, text \in SessionErrors :
          DownloadRaises(1, kind, text)
    \/ ExceptKeyboardInterrupt(1)
    \/ Finally(1)
    \/ Verify(1)
    \/ StageRepair(1)
    \/ StageNumbering(1)
    \/ StageCoverArt(1)
    \/ StagePlaylist(1)
    \/ PostSuccess(1)

SpecSession == InitSession /\ [][NextSession]_vars

\* ---- sessions that follow a session cancelled through the interrupt ----

\* The application after a first session (in slot 1) was cancelled while its
\* track was being fetched: the hook raised, the except branch and the finally
\* block each posted the cancelled notification, the first one has been
\* handled and the second is still queued.  n is the number of sessions
\* counted so far.
OverlapStart(n) ==
    /\ is_cancelling = FALSE
    /\ ydl_instance = 0
    /\ download_btn = "normal"
    /\ cancel_btn = "hidden"
    /\ queue = <<[sid |-> 1, success |-> FALSE, message |-> MsgCancelled]>>
    /\ session = n
    /\ format_var = DEFAULT_FORMAT
    /\ skip_postprocessing_var = FALSE
    /\ create_playlist_var = TRUE
    /\ NoNumbering
    /\ NoRepair
    /\ NoCover
    /\ NoPlaylist
    /\ NoHelper
    /\ download_info = {1}
    /\ album_info_stored = TRUE
    /\ downloaded_files = {}
    /\ total_tracks = 1
    /\ current_track = 0
    /\ pc = [sid \in Sessions |-> IF sid = 1 THEN "done" ELSE "idle"]
    /\ pending = [sid \in Sessions |-> NoPending]
    /\ existing_files_before = [sid \in Sessions |-> {}]
    /\ phase = [sid \in Sessions |-> IF sid = 1 THEN "fetch" ELSE "filter"]
    /\ item_no = [sid \in Sessions |-> IF sid = 1 THEN 1 ELSE 0]
    /\ item_file = [sid \in Sessions |-> 1]
    /\ item_bytes = [sid \in Sessions |-> 0]
    /\ item_total = [sid \in Sessions |-> 0]
    /\ album = 1
    /\ disk = {}
    /\ percent_posted = None
    /\ overall_posted = None
    /\ posted = [sid \in Sessions |-> IF sid = 1 THEN 2 ELSE 0]
    /\ handled = [sid \in Sessions |-> IF sid = 1 THEN 1 ELSE 0]
    /\ reported = [sid \in Sessions |-> IF sid = 1 THEN {"Cancelled"} ELSE {}]
    /\ cancel_at = [sid \in Sessions |-> IF sid = 1 THEN "early" ELSE "none"]
    /\ stages_run = [sid \in Sessions |-> {}]
    /\ late_write = [sid \in Sessions |-> FALSE]
    /\ hook_log = [fn |-> "progress_hook", status |-> "downloading", filename |-> <<>>,
                   pending_cancel |-> TRUE, blocked |-> TRUE]
    /\ controller_access = {"ydl_instance"}

\* MaxSessions further sessions are started from there
InitOverlap == OverlapStart(0)

\* the steps of Spec, with a provider that raises no error out of ydl.download
NextOverlap ==
    \/ start_download
    \/ cancel_download
    \/ download_complete
    \/ \E sid \in Sessions :
         \/ WorkerInit(sid)
         \/ QuickExtract(sid)
         \/ FullExtract(sid)
         \/ Snapshot(sid)
         \/ match_filter(sid, SessionTotals)
         \/ \E d \in Events(sid, SessionIndices, 0) : progress_hook(sid, d)
         \/ ProviderCompletesFile(sid)
         \/ ProviderPostprocess(sid)
         \/ DownloadReturns(sid)
         \/ ExceptKeyboardInterrupt(sid)
         \/ Finally(sid)
         \/ Verify(sid)
         \/ StageRepair(sid)
         \/ StageNumbering(sid)
         \/ StageCoverArt(sid)
         \/ StagePlaylist(sid)
         \/ PostSuccess(sid)

SpecOverlap == InitOverlap /\ [][NextOverlap]_vars

\* ================= claims =================

Hundred == <<PercentFull, 1>>

\* C1: a session in which cancel_download set the gate before the download
\* step returned is never past the download step, runs no post-download
\* stage and is never reported as success or as a failure; once it is over
\* it has been reported as Cancelled.
C1_CancelBeforeReturnEndsCancelled ==
    \A sid \in Sessions :
        cancel_at[sid] = "early" =>
            /\ pc[sid] \notin {"verify", "repair", "process", "cover", "playlist", "success"}
            /\ stages_run[sid] = {}
            /\ reported[sid] \subseteq {"Cancelled"}
            /\ Closed(sid) => reported[sid] = {"Cancelled"}

\* C2: every session posts exactly one completion notification: never more
\* than one, and one once its worker has ended.
C2_ExactlyOneCompletion ==
    \A sid \in Sessions :
        /\ posted[sid] <= 1
        /\ pc[sid] = "done" => posted[sid] = 1

\* C3: a call of match_filter or progress_hook made while a cancel of the
\* calling session is pending (gate set in the session, completion not yet
\* handled) rejects the item or raises before any mutation.
C3_CallbacksBlockedWhileCancelPending ==
    hook_log.pending_cancel => hook_log.blocked

\* C4: after the gate was set in a session, that session writes no output file.
C4_NoOutputAfterCancel ==
    \A sid \in Sessions : ~late_write[sid]

\* C5: the gate is cleared only by handling the completion notification of a
\* session whose cancel is pending; nothing else resets it.
C5_GateStaysSetUntilOwnCompletion ==
    [][(is_cancelling /\ ~is_cancelling') =>
          (queue # <<>> /\ PendingCancel(Head(queue).sid))]_vars

\* C6: a session is reported as Cancelled only if cancel_download set the
\* gate while it was open.
C6_CancelledOnlyWhenUserCancelled ==
    \A sid \in Sessions : "Cancelled" \in reported[sid] => cancel_at[sid] # "none"

\* C7: with total_tracks > 0 the track index lies in 0..total_tracks-1.
C7_TrackIndexInRange ==
    total_tracks > 0 => (0 <= current_track /\ current_track < total_tracks)

\* C8: current_track never decreases within a session.
C8_TrackNeverDecreases ==
    [][current_track' >= current_track]_vars

\* C9: the overall percent posted by successive downloading events of a
\* session is non-decreasing (stated for the events that do not move the
\* track index backwards).
C9_OverallNonDecreasing ==
    [][(overall_posted # None /\ overall_posted' # None /\ current_track' >= current_track)
          => RLeq(overall_posted, overall_posted')]_vars

\* C10: the overall percent a downloading event posts is 100 exactly when
\* current_track = total_tracks - 1 and the track's percent is 100, and it
\* never exceeds 100.
C10_HundredIffLastTrackFull ==
    [][(uiVars' # uiVars /\ overall_posted' # None) =>
          /\ RLeq(overall_posted', Hundred)
          /\ REq(overall_posted', Hundred) <=>
                (/\ current_track' = total_tracks' - 1
                 /\ percent_posted' # None
                 /\ REq(percent_posted', Hundred))]_vars

\* ---- steps of progress_hook seen from outside ----
\* a downloading event of the item in flight was handled (gate not set)
DownloadingStep(sid) ==
    /\ pc[sid] = "download" /\ pc'[sid] = "download"
    /\ phase[sid] = "fetch" /\ phase'[sid] = "fetch"
    /\ hook_log'.fn = "progress_hook" /\ hook_log'.status = "downloading"
    /\ ~hook_log'.blocked
\* the callback before this one was a downloading event of the same item
PrevSameTrack(sid) ==
    /\ phase[sid] = "fetch"
    /\ hook_log.fn = "progress_hook" /\ hook_log.status = "downloading"
    /\ ~hook_log.blocked
\* a finished event was handled (gate not set)
FinishedStep(sid) ==
    /\ pc[sid] = "download" /\ pc'[sid] = "download"
    /\ phase[sid] = "finishing" /\ phase'[sid] = "post"

\* C11: along the downloading events of one track, whose downloaded bytes do
\* not decrease and do not exceed the reported total, the track percent is
\* None exactly when the reported total is not positive, lies in [0, 100]
\* otherwise, and does not decrease from one event to the next.
C11_TrackPercentMonotoneBounded ==
    [][\A sid \in Sessions :
          DownloadingStep(sid) =>
            /\ (percent_posted' = None) <=> ~(item_total[sid] > 0)
            /\ percent_posted' # None =>
                  (RLeq(<<0, 1>>, percent_posted') /\ RLeq(percent_posted', Hundred))
            /\ (/\ PrevSameTrack(sid)
                /\ item_bytes[sid] <= item_bytes'[sid]
                /\ percent_posted # None /\ percent_posted' # None)
                  => RLeq(percent_posted, percent_posted')]_vars

\* a second downloading event of a track of known size has brought it to 100
C11_Witness ==
    /\ PrevSameTrack(1)
    /\ item_total[1] = MaxBytes /\ item_bytes[1] = MaxBytes
    /\ percent_posted # None /\ REq(percent_posted, Hundred)

\* C12: a finished event raises current_track by exactly 1 when it is below
\* total_tracks - 1 and leaves it otherwise, adds its filename, when not
\* empty, to downloaded_files, and changes no other session field.
C12_FinishedEventEffect ==
    [][\A sid \in Sessions :
          FinishedStep(sid) =>
            /\ current_track' = IF current_track < total_tracks - 1
                                THEN current_track + 1 ELSE current_track
            /\ downloaded_files' = IF hook_log'.filename # <<>>
                                   THEN downloaded_files \cup {hook_log'.filename}
                                   ELSE downloaded_files
            /\ UNCHANGED <<total_tracks, download_info, album_info_stored,
                           is_cancelling, ydl_instance, uiVars, disk>>]_vars

\* a finished event with a filename has moved the index to the second track
C12_Witness ==
    /\ phase[1] = "post"
    /\ hook_log.status = "finished" /\ hook_log.filename # <<>>
    /\ hook_log.filename \in downloaded_files
    /\ total_tracks = 2 /\ current_track = 1

\* ---- file reconciliation seen from outside ----
\* the worker leaves the reconciliation of lines 2962-2998
VerifyStep(sid) == pc[sid] = "verify" /\ pc'[sid] # "verify"
\* the audio files the download step created under the root
CreatedAudio == {f \in Rglob(disk, AllAudioExts) : f \notin PreExistingFiles}
\* the created files that carry an extension of the session's format
CreatedTarget ==
    {f \in CreatedAudio : f[2] \in FORMAT_EXTENSIONS[_extract_format(format_var)]}
NoFilesPosted(sid) ==
    queue' = Append(queue, [sid |-> sid, success |-> FALSE, message |-> MsgNoFiles])

\* C13: when the download step created no audio file and no finished event
\* recorded a filename, reconciliation posts the no-files notification and
\* ends the session without a post-download stage, under every format, with
\* and without skip mode, whatever audio files existed before.
C13_NothingProducedEndsNoFiles ==
    [][\A sid \in Sessions :
          (VerifyStep(sid) /\ CreatedAudio = {} /\ downloaded_files = {}) =>
              (pc'[sid] = "done" /\ NoFilesPosted(sid))]_vars

\* C14: the two snapshots glob for the same extensions, and reconciliation
\* goes on to the post-download stages whenever the download step created a
\* file of the format's extension or a recorded file still exists.
C14_ReconciliationSucceedsOnNewFile ==
    [][\A sid \in Sessions :
          VerifyStep(sid) =>
            /\ BeforeExts(format_var) = AfterExts(format_var, skip_postprocessing_var)
            /\ (CreatedTarget # {} \/ downloaded_files \cap disk # {}) =>
                  pc'[sid] \in {"repair", "process"}]_vars

\* C15: whatever the two extraction phases do, the worker goes from the fast
\* phase to the full phase, from the full phase to the snapshot and from
\* there into the download step, which it enters from nowhere else and only
\* once; a failed full phase leaves the catalog empty, and no completion
\* notification is posted before the download step.
C15_DownloadStepAfterAnyExtraction ==
    [][\A sid \in Sessions :
          /\ (pc[sid] = "quick" /\ pc'[sid] # "quick") => pc'[sid] = "full"
          /\ (pc[sid] = "full" /\ pc'[sid] # "full") =>
                /\ pc'[sid] = "snapshot"
                /\ ~album_info_stored' => download_info' = {}
          /\ (pc[sid] = "snapshot" /\ pc'[sid] # "snapshot") => pc'[sid] = "download"
          /\ (pc'[sid] = "download" /\ pc[sid] # "download") => pc[sid] = "snapshot"
          /\ pc[sid] \in {"init", "quick", "full", "snapshot"} => posted'[sid] = 0]_vars

\* both phases have failed and the worker is inside the download step
C15_Witness ==
    /\ pc[1] = "download"
    /\ phase[1] = "fetch"
    /\ ~album_info_stored /\ total_tracks = 0 /\ download_info = {}

\* ---- ownership of the session fields ----
\* the download step of the session has been invoked and no completion
\* notification of the session has been handled yet
DownloadInvoked(sid) ==
    /\ pc[sid] \in {"download", "except", "finally", "verify", "repair", "process",
                    "cover", "playlist", "success", "done"}
    /\ handled[sid] = 0

\* C16: from the invocation of a session's download step until its
\* completion notification is handled, no step changes the catalog
\* (download_info) or the album info (album_info_stored).
C16_CatalogFixedAfterDownloadStarts ==
    [][(\E sid \in Sessions : DownloadInvoked(sid)) =>
          UNCHANGED <<download_info, album_info_stored>>]_vars

\* C17: while a worker is in its download phase the controller thread
\* neither reads nor writes a worker-owned session field, and no step of the
\* worker or the provider changes is_cancelling.
C17_OnlyGateCrossesThreads ==
    [][/\ controller_access' = {}
       /\ is_cancelling' # is_cancelling =>
             \A sid \in Sessions :
                InDownloadPhase(sid) =>
                   /\ pc'[sid] = pc[sid]
                   /\ phase'[sid] = phase[sid]
                   /\ item_bytes'[sid] = item_bytes[sid]
                   /\ UNCHANGED fieldVars]_vars

\* ---- the post-download stages seen from outside ----
\* the stages lines 3000-3010 call under the settings, in the order of the code
EnabledStages ==
    (IF _extract_format(format_var) = "mp3" THEN <<"repair">> ELSE <<>>)
    \o <<"numbering", "cover">>
    \o (IF create_playlist_var THEN <<"playlist">> ELSE <<>>)
\* the stages that have run in the session
StagesDone(sid) == stages_run[sid] \ {"failed"}
FirstStages(k) == {EnabledStages[i] : i \in 1..k}
\* the success notification of the session is queued or has been shown
SuccessPosted(sid) ==
    \/ "Success" \in reported[sid]
    \/ \E i \in DOMAIN queue : queue[i].sid = sid /\ queue[i].success

\* C18: the stages that have run are always a beginning of the enabled stages
\* in the order repair, numbering, cover art, playlist; none runs before file
\* reconciliation is over; the success notification exists only when all the
\* enabled stages have run.
C18_StagesInOrder ==
    \A sid \in Sessions :
        /\ \E k \in 0..Len(EnabledStages) : StagesDone(sid) = FirstStages(k)
        /\ pc[sid] \in {"idle", "init", "quick", "full", "snapshot", "download", "except",
                        "finally", "verify"} => StagesDone(sid) = {}
        /\ (pc[sid] = "success" \/ SuccessPosted(sid)) =>
               StagesDone(sid) = FirstStages(Len(EnabledStages))

\* a session with all four stages has been reported as a success
C18_Witness ==
    /\ reported[1] = {"Success"}
    /\ StagesDone(1) = {"repair", "numbering", "cover", "playlist"}

\* C19: once a post-download stage has started, the session goes through
\* every remaining enabled stage and ends with exactly the success
\* notification, also when a stage has failed.
C19_StageFailureKeepsSuccess ==
    \A sid \in Sessions :
        /\ (stages_run[sid] # {} /\ pc[sid] = "done") =>
               /\ StagesDone(sid) = FirstStages(Len(EnabledStages))
               /\ posted[sid] = 1
               /\ SuccessPosted(sid)
        /\ stages_run[sid] # {} =>
               pc[sid] \in {"process", "cover", "playlist", "success", "done"}
        /\ stages_run[sid] # {} => reported[sid] \subseteq {"Success"}

\* a stage has failed and the session has been reported as a success
C19_Witness ==
    /\ "failed" \in stages_run[1]
    /\ reported[1] = {"Success"}
    /\ pc[1] = "done"

\* ---------------------------------------------------------------------
\* Track numbering (apply_track_numbering) as a function on file names.
\* A name is a sequence of one-character strings; every audio file of the
\* folder has the same extension, so a file is identified by its stem.
\* ---------------------------------------------------------------------

MaxPasses == 2

Digits == <<"0", "1", "2", "3", "4", "5", "6", "7", "8", "9">>
\* track titles: two short ones, one that contains both and one that ends
\* in a number
Titles == {<<"A">>, <<"b">>, <<"A", "b">>, <<"A", "2">>}
Unknown == <<"U", "n", "k", "n", "o", "w", "n">>
\* the characters of the model in code-point order
Alphabet ==
    <<" ", "-", ".">> \o Digits \o <<"A", "U">>
    \o <<"a", "b", "c", "d", "e", "f", "g", "h", "i", "j", "k", "l", "m",
         "n", "o", "p", "q", "r", "s", "t", "u", "v", "w", "x", "y", "z">>

\* str.lower()
LowerChar(c) == CASE c = "A" -> "a" [] c = "U" -> "u" [] OTHER -> c
Lower(s) == [k \in 1..Len(s) |-> LowerChar(s[k])]

Rank(c) == CHOOSE k \in 1..Len(Alphabet) : Alphabet[k] = c
IsDigit(c) == \E k \in 1..Len(Digits) : Digits[k] = c
IsWordChar(c) == Rank(c) > Rank(".")
DigitValue(c) == (CHOOSE k \in 1..Len(Digits) : Digits[k] = c) - 1

RECURSIVE IntOf(_)
\* int(match.group(1))
IntOf(s) ==
    IF s = <<>> THEN 0
    ELSE 10 * IntOf(SubSeq(s, 1, Len(s) - 1)) + DigitValue(s[Len(s)])

\* f"{n}" and f"{n:02d}" for 0 <= n < 100
Decimal(n) ==
    IF n < 10 THEN <<Digits[n + 1]>>
    ELSE <<Digits[(n \div 10) + 1], Digits[(n % 10) + 1]>>
Padded(n) == IF n < 10 THEN <<"0">> \o Decimal(n) ELSE Decimal(n)

\* x in y, for strings
Substr(x, y) == \E i \in 0..(Len(y) - Len(x)) : SubSeq(y, i + 1, i + Len(x)) = x

\* a < b in the order of str
StrLess(a, b) ==
    \E k \in 1..(Len(a) + 1) :
        /\ k <= Len(b)
        /\ SubSeq(a, 1, k - 1) = SubSeq(b, 1, k - 1)
        /\ \/ k = Len(a) + 1
           \/ Rank(a[k]) < Rank(b[k])

\* re.match(r'^\d+[.\-]\s*', file_title)
AlreadyNumbered(file_title) ==
    LET k == CHOOSE j \in 0..Len(file_title) :
                 /\ \A i \in 1..j : IsDigit(file_title[i])
                 /\ j = Len(file_title) \/ ~IsDigit(file_title[j + 1])
    IN  /\ k > 0
        /\ k < Len(file_title)
        /\ file_title[k + 1] \in {".", "-"}

\* re.search(r'\b(\d+)\b', file_title): the first run of digits that is a
\* whole word, as <<i, j>>, or None
NumberWords(file_title) ==
    {w \in (1..Len(file_title)) \X (1..Len(file_title)) :
        /\ w[1] <= w[2]
        /\ \A i \in w[1]..w[2] : IsDigit(file_title[i])
        /\ w[1] = 1 \/ ~IsWordChar(file_title[w[1] - 1])
        /\ w[2] = Len(file_title) \/ ~IsWordChar(file_title[w[2] + 1])}
\* the first run of digits of the name, whether or not letters adjoin it
NumberInNameAnyRun(file_title) ==
    LET starts == {i \in 1..Len(file_title) : IsDigit(file_title[i])}
        i == CHOOSE v \in starts : \A u \in starts : v <= u
        j == CHOOSE v \in i..Len(file_title) :
                 /\ \A u \in i..v : IsDigit(file_title[u])
                 /\ v = Len(file_title) \/ ~IsDigit(file_title[v + 1])
    IN  IF starts = {} THEN None ELSE <<IntOf(SubSeq(file_title, i, j))>>
NumberInName(file_title) ==
    IF NumberWords(file_title) = {} THEN None
    ELSE LET w == CHOOSE v \in NumberWords(file_title) :
                      \A u \in NumberWords(file_title) : v[1] <= u[1]
         IN  <<IntOf(SubSeq(file_title, w[1], w[2]))>>

RECURSIVE Strip(_)
\* name.strip(' .')
Strip(name) ==
    IF name = <<>> THEN name
    ELSE IF name[1] \in {" ", "."} THEN Strip(Tail(name))
    ELSE IF name[Len(name)] \in {" ", "."} THEN Strip(SubSeq(name, 1, Len(name) - 1))
    ELSE name

\* none of the characters < > : " / \ | ? * is in the alphabet
sanitize_filename(name) ==
    IF name = <<>> THEN name
    ELSE IF Strip(name) = <<>> THEN Unknown
    ELSE Strip(name)

\* the catalog entry of item i: its title, its key and its track number
CatalogTitle(i) == entries[i].title
CatalogKey(i) == Lower(entries[i].title)
CatalogTrackNumber(i) == IF entries[i].track_number = 0 THEN None ELSE <<entries[i].track_number>>

\* for title_key, info in self.download_info.items(): the first entry, in
\* insertion order, whose key contains the lowercased stem or is contained in it
CatalogMatches(stem, catalog) ==
    {i \in catalog : \/ Substr(Lower(stem), CatalogKey(i))
                     \/ Substr(CatalogKey(i), Lower(stem))}
FirstMatch(stem, catalog) ==
    CHOOSE i \in CatalogMatches(stem, catalog) : \A j \in CatalogMatches(stem, catalog) : i <= j

\* the names the provider gives the files: %(title)s
ProviderNames == {CatalogTitle(i) : i \in 1..MaxTracks}

NumberingStyles == {"01. Track", "1. Track", "01 - Track", "1 - Track"}

NumberPrefix(numbering_style, track_number) ==
    CASE numbering_style = "01. Track" -> Padded(track_number) \o <<".", " ">>
      [] numbering_style = "1. Track" -> Decimal(track_number) \o <<".", " ">>
      [] numbering_style = "01 - Track" -> Padded(track_number) \o <<" ", "-", " ">>
      [] numbering_style = "1 - Track" -> Decimal(track_number) \o <<" ", "-", " ">>

RECURSIVE SortedNames(_)
\* audio_files.sort(key=lambda x: x.name); the name is the stem followed
\* by the extension, which starts with a dot
SortedNames(names) ==
    IF names = {} THEN <<>>
    ELSE LET first == CHOOSE x \in names :
                          \A y \in names : x = y \/ StrLess(x \o <<".">>, y \o <<".">>)
         IN  <<first>> \o SortedNames(names \ {first})

\* the name of one file after a rename that does not look whether the
\* destination exists
NewNameUnchecked(audio_files, index, catalog, numbering_style, present) ==
    LET file_title == audio_files[index]
        matches == CatalogMatches(file_title, catalog)
        entry == FirstMatch(file_title, catalog)
        track_title == IF matches = {} THEN file_title ELSE CatalogTitle(entry)
        track_number == IF matches # {} /\ CatalogTrackNumber(entry) # None
                            THEN CatalogTrackNumber(entry)[1]
                        ELSE IF NumberInName(file_title) # None THEN NumberInName(file_title)[1]
                        ELSE index
    IN  IF numbering_style \notin NumberingStyles \/ AlreadyNumbered(file_title) THEN file_title
        ELSE NumberPrefix(numbering_style, track_number) \o sanitize_filename(track_title)

\* the name one file is renamed to, or the file's own name when it is
\* left alone
NewName(audio_files, index, catalog, numbering_style, present) ==
    LET file_title == audio_files[index]
        matches == CatalogMatches(file_title, catalog)
        entry == FirstMatch(file_title, catalog)
        track_title == IF matches = {} THEN file_title ELSE CatalogTitle(entry)
        track_number == IF matches # {} /\ CatalogTrackNumber(entry) # None
                            THEN CatalogTrackNumber(entry)[1]
                        ELSE IF NumberInName(file_title) # None THEN NumberInName(file_title)[1]
                        ELSE index
        new_name == NumberPrefix(numbering_style, track_number) \o sanitize_filename(track_title)
    IN  IF file_title[1] = "." THEN file_title
        ELSE IF numbering_style \notin NumberingStyles THEN file_title
        ELSE IF AlreadyNumbered(file_title) THEN file_title
        ELSE IF new_name \in present THEN file_title
        ELSE new_name

RECURSIVE NumberingLoop(_, _, _, _, _, _)
NumberingLoop(audio_files, index, catalog, numbering_style, present, log) ==
    IF index > Len(audio_files) THEN [present |-> present, log |-> log]
    ELSE LET audio_file == audio_files[index]
             new_name == NewName(audio_files, index, catalog, numbering_style, present)
         IN  NumberingLoop(audio_files, index + 1, catalog, numbering_style,
                           (present \ {audio_file}) \cup {new_name},
                           IF new_name = audio_file THEN log
                           ELSE Append(log, <<audio_file, new_name>>))

\* the folder after apply_track_numbering, and the renames it made
apply_track_numbering(names, numbering_style, catalog) ==
    IF numbering_style = "None" THEN [present |-> names, log |-> <<>>]
    ELSE NumberingLoop(SortedNames(names), 1, catalog, numbering_style, names, <<>>)

\* one run of apply_track_numbering over the folder
NumberingPass ==
    /\ passes < MaxPasses
    /\ folder' = apply_track_numbering(folder, numbering_var, download_info).present
    /\ renames' = apply_track_numbering(folder, numbering_var, download_info).log
    /\ passes' = passes + 1
    /\ UNCHANGED <<ctrlVars, format_var, skip_postprocessing_var, create_playlist_var,
                   numbering_var, entries, repairVars, coverVars, playlistVars, helperVars, fieldVars, pc, pending, existing_files_before,
                   providerVars, album, disk, percent_posted, overall_posted,
                   posted, handled, reported, cancel_at, stages_run, late_write,
                   hook_log, controller_access>>

\* the session state while one post-download stage is looked at on its own
InitIdle ==
    /\ InitCommon
    /\ download_btn = "normal"
    /\ cancel_btn = "hidden"
    /\ session = 0
    /\ format_var = DEFAULT_FORMAT
    /\ skip_postprocessing_var = FALSE
    /\ create_playlist_var = TRUE
    /\ album = 1
    /\ disk = {}
    /\ pc = [sid \in Sessions |-> "idle"]

\* the catalogs of an album: distinct titles, and for each item its track
\* number or none
Catalogs ==
    {e \in [1..MaxTracks -> [title : Titles, track_number : 0..MaxTracks]] :
        /\ \A i, j \in 1..MaxTracks : e[i].title = e[j].title => i = j
        /\ \A i \in 1..MaxTracks : e[i].track_number \in {0, i}}

\* a folder of downloaded files, a numbering style and a catalog that
\* holds an entry for some of the tracks, for all of them or for none
InitNumbering ==
    /\ InitIdle
    /\ numbering_var \in NumberingStyles \cup {"None"}
    /\ entries \in Catalogs
    /\ download_info \in SUBSET (1..MaxTracks)
    /\ folder \in SUBSET ProviderNames
    /\ passes = 0
    /\ renames = <<>>
    /\ NoRepair
    /\ NoCover
    /\ NoPlaylist
    /\ NoHelper

NextNumbering == NumberingPass

SpecNumbering == InitNumbering /\ [][NextNumbering]_vars

\* C20: a second run of apply_track_numbering, with the same style and
\* the same catalog, over the folder a first run left renames no file;
\* for each of the four styles, with and without a catalog
C20_NumberingIdempotent ==
    [][(passes >= 1 /\ passes' = passes + 1) => folder' = folder]_vars

\* the catalog entry whose title is the stem
EntryTitled(stem, catalog) == CHOOSE i \in catalog : CatalogTitle(i) = stem

\* every file is named after a catalog entry that has a track number
AllFilesInCatalog ==
    \A f \in folder : \E i \in download_info :
        CatalogTitle(i) = f /\ CatalogTrackNumber(i) # None

\* C21: with the style "01 - Track", when every file's stem is the title
\* of one catalog entry, each file "<title>" is renamed to
\* "<two-digit track number of that entry> - <title>"
C21_PaddedDashNamesFromCatalog ==
    [][(passes = 0 /\ passes' = 1 /\ numbering_var = "01 - Track" /\ AllFilesInCatalog)
        => folder' = {Padded(CatalogTrackNumber(EntryTitled(f, download_info))[1])
                          \o <<" ", "-", " ">> \o f : f \in folder}]_vars

\* the maximal runs of digits of a stem, as <<first, last>>
DigitRuns(stem) ==
    {r \in (1..Len(stem)) \X (1..Len(stem)) :
        /\ r[1] <= r[2]
        /\ \A i \in r[1]..r[2] : IsDigit(stem[i])
        /\ r[1] = 1 \/ ~IsDigit(stem[r[1] - 1])
        /\ r[2] = Len(stem) \/ ~IsDigit(stem[r[2] + 1])}
\* the runs that no letter adjoins
WordRuns(stem) ==
    {r \in DigitRuns(stem) :
        /\ r[1] = 1 \/ stem[r[1] - 1] \in {" ", "-", "."}
        /\ r[2] = Len(stem) \/ stem[r[2] + 1] \in {" ", "-", "."}}
FirstRunValue(stem, runs) ==
    LET r == CHOOSE v \in runs : \A u \in runs : v[1] <= u[1]
    IN  IntOf(SubSeq(stem, r[1], r[2]))

\* the 1-based position of a file in the list sorted by file name
PositionOf(f, names) ==
    Cardinality({g \in names : g = f \/ StrLess(g \o <<".">>, f \o <<".">>)})

\* the track number by the three sources in priority order, the second
\* source being the given set of digit runs of the stem
NumberBySources(f, runs) ==
    IF CatalogMatches(f, download_info) # {}
           /\ CatalogTrackNumber(FirstMatch(f, download_info)) # None
        THEN CatalogTrackNumber(FirstMatch(f, download_info))[1]
    ELSE IF runs # {} THEN FirstRunValue(f, runs)
    ELSE PositionOf(f, folder)

\* the title a renamed file carries: the matched entry's, else its stem
TitleBySources(f) ==
    IF CatalogMatches(f, download_info) # {}
        THEN CatalogTitle(FirstMatch(f, download_info))
    ELSE f

\* C22 as stated: each file that is numbered gets the number of the first
\* matching catalog entry that has one, otherwise the first integer found
\* in its stem, otherwise its position in the sorted list
C22_NumberFromFirstIntegerInStem ==
    [][passes' = passes + 1 =>
        \A f \in folder \ folder' :
            NumberPrefix(numbering_var, NumberBySources(f, DigitRuns(f)))
                \o TitleBySources(f) \in folder']_vars

\* C22, amended: the second source is the first integer of the stem that
\* stands as a whole word (no letter or digit adjoins it)
C22_NumberSourcesInPriorityOrder ==
    [][passes' = passes + 1 =>
        \A f \in folder \ folder' :
            NumberPrefix(numbering_var, NumberBySources(f, WordRuns(f)))
                \o TitleBySources(f) \in folder']_vars

\* a file without a matching entry and without a number in its name got its
\* position, and a file numbered by a dash style got its number read back
C22_Witness ==
    /\ passes = 2
    /\ download_info = {}
    /\ numbering_var = "1 - Track"
    /\ <<"2", " ", "-", " ", "2", " ", "-", " ", "b">> \in folder

RECURSIVE NoOverwrite(_, _)
\* replaying the renames over the names, no destination exists when a file
\* is moved onto it
NoOverwrite(log, names) ==
    \/ log = <<>>
    \/ /\ Head(log)[1] \in names
       /\ Head(log)[2] \notin names
       /\ NoOverwrite(Tail(log), (names \ {Head(log)[1]}) \cup {Head(log)[2]})

\* C23: a numbering pass never renames a file onto a name that exists, so
\* the folder holds as many files after the pass as before it
C23_NoRenameOntoExisting ==
    [][passes' = passes + 1 =>
        /\ NoOverwrite(renames', folder)
        /\ Cardinality(folder') = Cardinality(folder)]_vars

\* two files resolved to "01 - Ab": the first was renamed, the other kept
\* its name
C23_Witness ==
    /\ passes = 1
    /\ renames = << << <<"A">>, <<"0", "1", " ", "-", " ", "A", "b">> >> >>
    /\ folder = {<<"0", "1", " ", "-", " ", "A", "b">>, <<"A", "b">>}

\* ---------------------------------------------------------------------
\* Metadata repair (verify_and_fix_mp3_metadata) over the mp3 files of the
\* folder. The tags of a file are described by where they come from: none,
\* some of title/artist/album missing ("partial"), the provider's own
\* complete tags, a catalog entry, or the file name with the album-level
\* artist and album ("fallback").
\* ---------------------------------------------------------------------

NoTags == [source |-> "none", entry |-> 0]
PartialTags == [source |-> "partial", entry |-> 0]
OwnTags == [source |-> "own", entry |-> 0]

\* has_title and has_artist and has_album
Complete(t) == t.source \in {"own", "entry", "fallback"}

\* ffprobe gives the tags, is not found, or fails
ProbeOutcomes == {"tags", "unavailable", "failed"}

\* check_mp3_metadata: the tags, or None
check_mp3_metadata(mp3_file, probe) ==
    IF probe = "tags" THEN <<tags[mp3_file]>> ELSE None

\* the entries the repair loop accepts for a file name
RepairMatches(filename, catalog) ==
    {i \in catalog : \/ Substr(Lower(filename), CatalogKey(i))
                     \/ Substr(CatalogKey(i), Lower(filename))
                     \/ Substr(Lower(filename), Lower(CatalogTitle(i)))}

\* the metadata to embed: the first accepted entry in insertion order, else
\* the file name and the album-level values
RepairMetadata(filename, catalog) ==
    IF RepairMatches(filename, catalog) = {} THEN [source |-> "fallback", entry |-> 0]
    ELSE [source |-> "entry",
          entry |-> CHOOSE i \in RepairMatches(filename, catalog) :
                        \A j \in RepairMatches(filename, catalog) : i <= j]

\* what can happen in re_embed_mp3_metadata: subprocess.run raises; the tool
\* exits with 0 or not, with or without an output file; unlinking the
\* original, renaming the output or unlinking the output raises
ToolOutcomes ==
    {[returncode |-> 0, output |-> FALSE, raises |-> "run"]}
    \cup [returncode : {0, 1}, output : BOOLEAN, raises : {"none"}]
    \cup {[returncode |-> 0, output |-> TRUE, raises |-> "unlink"],
          [returncode |-> 0, output |-> TRUE, raises |-> "rename"],
          [returncode |-> 1, output |-> TRUE, raises |-> "cleanup"]}

\* re_embed_mp3_metadata: its return value, whether the original exists
\* afterwards, its tags, and whether the temporary output is left
re_embed_mp3_metadata(mp3_file, metadata, outcome) ==
    IF outcome.raises = "run"
        THEN [result |-> FALSE, exists |-> TRUE, tags |-> tags[mp3_file], temp |-> FALSE]
    ELSE IF outcome.returncode = 0 /\ outcome.output
        THEN IF outcome.raises = "unlink"
                 THEN [result |-> FALSE, exists |-> TRUE, tags |-> tags[mp3_file], temp |-> TRUE]
             ELSE IF outcome.raises = "rename"
                 THEN [result |-> FALSE, exists |-> FALSE, tags |-> tags[mp3_file], temp |-> TRUE]
             ELSE [result |-> TRUE, exists |-> TRUE, tags |-> metadata, temp |-> FALSE]
    ELSE IF outcome.output
        THEN [result |-> FALSE, exists |-> TRUE, tags |-> tags[mp3_file],
              temp |-> (outcome.raises = "cleanup")]
    ELSE [result |-> FALSE, exists |-> TRUE, tags |-> tags[mp3_file], temp |-> FALSE]

\* the loop ended by an exception of the tool on an earlier file
RepairFileStopsOnFailure(mp3_file, probe, outcome) ==
    /\ mp3_file \in folder \ checked
    /\ tool_result.raises = "none"
    /\ checked' = checked \cup {mp3_file}
    /\ LET seen == check_mp3_metadata(mp3_file, probe)
           r == re_embed_mp3_metadata(mp3_file, RepairMetadata(mp3_file, download_info), outcome)
       IN  IF seen # None /\ Complete(seen[1])
               THEN UNCHANGED <<folder, tags, temps, embed_calls, tool_result>>
           ELSE /\ embed_calls' = embed_calls \cup {mp3_file}
                /\ tool_result' = outcome
                /\ folder' = IF r.exists THEN folder ELSE folder \ {mp3_file}
                /\ tags' = [tags EXCEPT ![mp3_file] = r.tags]
                /\ temps' = IF r.temp THEN temps \cup {mp3_file} ELSE temps \ {mp3_file}
    /\ UNCHANGED <<ctrlVars, settingVars, passes, entries, renames, coverVars, playlistVars, helperVars, fieldVars, pc, pending,
                   existing_files_before, providerVars, album, disk, percent_posted,
                   overall_posted, posted, handled, reported, cancel_at, stages_run,
                   late_write, hook_log, controller_access>>

\* one iteration of the loop of verify_and_fix_mp3_metadata
RepairFile(mp3_file, probe, outcome) ==
    /\ mp3_file \in folder \ checked
    /\ checked' = checked \cup {mp3_file}
    /\ LET seen == check_mp3_metadata(mp3_file, probe)
           r == re_embed_mp3_metadata(mp3_file, RepairMetadata(mp3_file, download_info), outcome)
       IN  IF seen # None /\ Complete(seen[1])
               THEN UNCHANGED <<folder, tags, temps, embed_calls, tool_result>>
           ELSE /\ embed_calls' = embed_calls \cup {mp3_file}
                /\ tool_result' = outcome
                /\ folder' = IF r.exists THEN folder ELSE folder \ {mp3_file}
                /\ tags' = [tags EXCEPT ![mp3_file] = r.tags]
                /\ temps' = IF r.temp THEN temps \cup {mp3_file} ELSE temps \ {mp3_file}
    /\ UNCHANGED <<ctrlVars, settingVars, passes, entries, renames, coverVars, playlistVars, helperVars, fieldVars, pc, pending,
                   existing_files_before, providerVars, album, disk, percent_posted,
                   overall_posted, posted, handled, reported, cancel_at, stages_run,
                   late_write, hook_log, controller_access>>

\* mp3 files just downloaded, tagged or not, and a catalog
InitRepair ==
    /\ InitIdle
    /\ numbering_var = "None"
    /\ entries \in {e \in Catalogs : \A i \in 1..MaxTracks : e[i].track_number = i}
    /\ download_info \in SUBSET (1..MaxTracks)
    /\ folder \in SUBSET ProviderNames
    /\ passes = 0
    /\ renames = <<>>
    /\ tags \in [folder -> {NoTags, PartialTags, OwnTags}]
    /\ temps = {}
    /\ checked = {}
    /\ embed_calls = {}
    /\ tool_result = NoTool
    /\ NoCover
    /\ NoPlaylist
    /\ NoHelper

NextRepair ==
    \E mp3_file \in Titles, probe \in ProbeOutcomes, outcome \in ToolOutcomes :
        RepairFile(mp3_file, probe, outcome)

SpecRepair == InitRepair /\ [][NextRepair]_vars

\* the inputs of the repair loop after a session: the catalog holds an
\* entry for every track of the album, or for none; a file has its own
\* complete tags or no tags
InitRepairLoop ==
    /\ InitRepair
    /\ download_info \in {{}, 1..MaxTracks}
    /\ \A f \in folder : tags[f] \in {NoTags, OwnTags}

\* the for loop of verify_and_fix_mp3_metadata goes on to its next file
SpecRepairFair == InitRepairLoop /\ [][NextRepair]_vars /\ WF_vars(NextRepair)

\* the file that was handed to re_embed_mp3_metadata in this step
Embedded(f) == f \in embed_calls' \ embed_calls

\* C24: a file with empty tags whose stem contains the title of a catalog
\* entry gets, when it is re-embedded, the tags of an entry whose title its
\* stem contains, whatever else the catalog holds and in whatever order
C24_RepairEmbedsContainedEntry ==
    [][\A f \in folder :
        (/\ tags[f] = NoTags
         /\ tags'[f] # tags[f]
         /\ \E i \in download_info : Substr(CatalogKey(i), Lower(f)))
        => /\ tags'[f].source = "entry"
           /\ Substr(CatalogKey(tags'[f].entry), Lower(f))]_vars

\* C25: re_embed_mp3_metadata replaces the original only when the tool exits
\* with 0 and its output exists; in every other outcome, an exception at any
\* step included, the original remains with its content and no temporary
\* output is left
C25_ReEmbedReplacesOrPreserves ==
    [][\A f \in folder : Embedded(f) =>
        /\ tags'[f] # tags[f] => (tool_result'.returncode = 0 /\ tool_result'.output)
        /\ (tool_result'.returncode # 0 \/ ~tool_result'.output \/ tool_result'.raises # "none")
               => (f \in folder' /\ tags'[f] = tags[f] /\ f \notin temps')]_vars

\* C26: a file whose title, artist and album tags are all present is never
\* handed to the re-embed step and never modified, also when the probe
\* cannot be run or fails
C26_CompleteTagsNeverReEmbedded ==
    [][\A f \in folder : Complete(tags[f]) =>
        (~Embedded(f) /\ f \in folder' /\ tags'[f] = tags[f])]_vars

\* ---------------------------------------------------------------------
\* Cover art (deduplicate_cover_art) over the image files of one directory.
\* images maps each file name to its content and to whether the file can
\* be read.
\* ---------------------------------------------------------------------

CoverJpg == <<"c", "o", "v", "e", "r", ".", "j", "p", "g">>
AlbumJpg == <<"a", "l", "b", "u", "m", ".", "j", "p", "g">>
ArtPng == <<"a", "r", "t", ".", "p", "n", "g">>
FrontJpg == <<"f", "r", "o", "n", "t", ".", "j", "p", "g">>
ImageNames == {CoverJpg, AlbumJpg, ArtPng, FrontJpg}
Contents == {"x", "y"}

\* Path.stem: the name up to its last dot
Stem(name) ==
    LET k == CHOOSE i \in 1..Len(name) :
                 name[i] = "." /\ \A j \in (i + 1)..Len(name) : name[j] # "."
    IN  SubSeq(name, 1, k - 1)

\* ['cover', 'album', 'folder', 'artwork']
CommonNames ==
    {<<"c", "o", "v", "e", "r">>, <<"a", "l", "b", "u", "m">>,
     <<"f", "o", "l", "d", "e", "r">>, <<"a", "r", "t", "w", "o", "r", "k">>}

\* any(name in f.stem.lower() for name in [...])
HasCommonName(f) == \E name \in CommonNames : Substr(name, Lower(Stem(f)))

\* the sort key (0 if common name else 1, f.name)
KeepBefore(f, g) ==
    \/ HasCommonName(f) /\ ~HasCommonName(g)
    \/ HasCommonName(f) = HasCommonName(g) /\ StrLess(f, g)

\* get_file_hash: the hash of the content, or None when the file cannot be
\* read
get_file_hash(dir, f) == IF dir[f].readable THEN <<dir[f].content>> ELSE None

\* deduplicate_cover_art deleting every one of the identical files
deduplicate_cover_art_all(dir, locked) ==
    LET cover_art_files == DOMAIN dir
        hashed == {f \in cover_art_files : get_file_hash(dir, f) # None}
        file_hashes == {get_file_hash(dir, f) : f \in hashed}
        deleted == hashed \ locked
    IN  IF Cardinality(cover_art_files) <= 1 THEN dir
        ELSE IF Cardinality(file_hashes) = 1
            THEN [f \in cover_art_files \ deleted |-> dir[f]]
        ELSE dir

\* the directory after deduplicate_cover_art; locked holds the files whose
\* unlink raises
deduplicate_cover_art(dir, locked) ==
    LET cover_art_files == DOMAIN dir
        hashed == {f \in cover_art_files : get_file_hash(dir, f) # None}
        file_hashes == {get_file_hash(dir, f) : f \in hashed}
        kept_file == CHOOSE f \in hashed : \A g \in hashed : f = g \/ KeepBefore(f, g)
        deleted == (hashed \ {kept_file}) \ locked
    IN  IF Cardinality(cover_art_files) <= 1 THEN dir
        ELSE IF Cardinality(file_hashes) = 1
            THEN [f \in cover_art_files \ deleted |-> dir[f]]
        ELSE dir

\* the files deduplicate_cover_art calls unlink on: files_to_keep[1:]
files_to_delete(dir) ==
    LET cover_art_files == DOMAIN dir
        hashed == {f \in cover_art_files : get_file_hash(dir, f) # None}
        file_hashes == {get_file_hash(dir, f) : f \in hashed}
        kept_file == CHOOSE f \in hashed : \A g \in hashed : f = g \/ KeepBefore(f, g)
    IN  IF Cardinality(cover_art_files) > 1 /\ Cardinality(file_hashes) = 1
            THEN hashed \ {kept_file}
        ELSE {}

DedupeDirectory(locked) ==
    /\ ~deduped
    /\ deduped' = TRUE
    /\ images' = deduplicate_cover_art(images, locked)
    /\ unlink_raised' = unlink_raised \cup (files_to_delete(images) \cap locked)
    /\ UNCHANGED <<ctrlVars, settingVars, folder, passes, entries, renames, repairVars,
                   playlistVars, helperVars, fieldVars, pc, pending, existing_files_before, providerVars, album,
                   disk, percent_posted, overall_posted, posted, handled, reported,
                   cancel_at, stages_run, late_write, hook_log, controller_access>>

\* the directories: any of the image names, each with one of two contents,
\* readable or not
Directories ==
    UNION {[names -> [content : Contents, readable : BOOLEAN]] : names \in SUBSET ImageNames}

InitCover ==
    /\ InitIdle
    /\ download_info = {}
    /\ NoNumbering
    /\ tags = <<>>
    /\ temps = {}
    /\ checked = {}
    /\ embed_calls = {}
    /\ tool_result = NoTool
    /\ images \in Directories
    /\ deduped = FALSE
    /\ unlink_raised = {}
    /\ NoPlaylist
    /\ NoHelper

NextCover == \E locked \in SUBSET ImageNames : DedupeDirectory(locked)

SpecCover == InitCover /\ [][NextCover]_vars

\* a later invocation of deduplicate_cover_art over the same directory
DedupeAgain(locked) ==
    /\ deduped
    /\ images' = deduplicate_cover_art(images, locked)
    /\ unlink_raised' = unlink_raised \cup (files_to_delete(images) \cap locked)
    /\ UNCHANGED <<ctrlVars, settingVars, folder, passes, entries, renames, repairVars,
                   playlistVars, helperVars, deduped, fieldVars, pc, pending,
                   existing_files_before, providerVars, album,
                   disk, percent_posted, overall_posted, posted, handled, reported,
                   cancel_at, stages_run, late_write, hook_log, controller_access>>

NextCoverRepeat ==
    \/ \E locked \in SUBSET ImageNames : DedupeDirectory(locked)
    \/ \E locked \in SUBSET ImageNames : DedupeAgain(locked)

SpecCoverRepeat == InitCover /\ [][NextCoverRepeat]_vars

\* C27: of two or more byte-identical images, one of them cover.jpg, the
\* stage leaves exactly one, and it is cover.jpg
C27_IdenticalImagesLeaveCoverJpg ==
    [][(/\ ~deduped /\ deduped'
        /\ CoverJpg \in DOMAIN images
        /\ Cardinality(DOMAIN images) >= 2
        /\ \A f, g \in DOMAIN images : images[f].content = images[g].content)
       => DOMAIN images' = {CoverJpg}]_vars

\* C28: when the images of the directory do not all have the same content
\* the stage deletes none of them
C28_DifferentImagesAllKept ==
    [][(/\ ~deduped /\ deduped'
        /\ \E f, g \in DOMAIN images : images[f].content # images[g].content)
       => images' = images]_vars

\* ---------------------------------------------------------------------
\* Playlist (create_playlist_file) over the audio files of the format's
\* extension under the download path. A directory is the sequence of its
\* path components below the download path; a file is a directory and a stem.
\* ---------------------------------------------------------------------

MaxListed == 3

\* the download path itself, an album folder with a subfolder, and another
\* album folder
Dirs == {<<>>, <<"x">>, <<"x", "z">>, <<"y">>}

\* a temporary output left in the folder: <stem>.tmp
TmpStem == <<"A", ".", "t", "m", "p">>
PlaylistStems == {<<"A">>, <<"b">>, TmpStem}

AudioFiles == [dir : Dirs, stem : PlaylistStems]

\* audio_file.name.startswith('.') or 'tmp' in audio_file.name.lower()
IsTemporary(audio_file) ==
    \/ audio_file.stem[1] = "."
    \/ Substr(<<"t", "m", "p">>, Lower(audio_file.stem))

\* dir lies in parent or below it
IsUnder(dir, parent) ==
    Len(parent) <= Len(dir) /\ SubSeq(dir, 1, Len(parent)) = parent

\* the orders audio_files.sort(key=lambda x: x.name) can give: ascending by
\* name, files of equal name in the order rglob found them
SortedOrders(files) ==
    {order \in [1..Cardinality(files) -> files] :
        /\ \A i, j \in 1..Cardinality(files) : order[i] = order[j] => i = j
        /\ \A i, j \in 1..Cardinality(files) :
               i < j => ~StrLess(order[j].stem \o <<".">>, order[i].stem \o <<".">>)}

\* the title of the last matching catalog entry
PlaylistTitleLastMatch(stem, catalog) ==
    IF CatalogMatches(stem, catalog) = {} THEN stem
    ELSE CatalogTitle(CHOOSE i \in CatalogMatches(stem, catalog) :
                          \A j \in CatalogMatches(stem, catalog) : j <= i)
\* the title of the first matching catalog entry, else the stem
PlaylistTitle(stem, catalog) ==
    IF CatalogMatches(stem, catalog) = {} THEN stem
    ELSE CatalogTitle(FirstMatch(stem, catalog))

\* the path written for a file: relative to the playlist's directory with
\* forward slashes, or, when relative_to raises ValueError, str(audio_file)
PlaylistPath(audio_file, dir) ==
    IF IsUnder(audio_file.dir, dir)
        THEN [base |-> "playlist", separator |-> "/",
              parts |-> SubSeq(audio_file.dir, Len(dir) + 1, Len(audio_file.dir))]
    ELSE [base |-> "absolute", separator |-> "native", parts |-> audio_file.dir]

RECURSIVE PlaylistEntries(_, _, _, _)
PlaylistEntries(audio_files, index, dir, catalog) ==
    IF index > Len(audio_files) THEN <<>>
    ELSE IF IsTemporary(audio_files[index])
        THEN PlaylistEntries(audio_files, index + 1, dir, catalog)
    ELSE <<[title |-> PlaylistTitle(audio_files[index].stem, catalog),
            path |-> PlaylistPath(audio_files[index], dir),
            file |-> audio_files[index]]>>
         \o PlaylistEntries(audio_files, index + 1, dir, catalog)

\* create_playlist_file, with any of the sorted lists it can obtain
CreatePlaylist ==
    /\ playlist_dir = None
    /\ tree # {}
    /\ \E audio_files \in SortedOrders(tree) :
           /\ playlist_dir' = <<audio_files[1].dir>>
           /\ playlist' = PlaylistEntries(audio_files, 1, audio_files[1].dir, download_info)
    /\ UNCHANGED <<ctrlVars, settingVars, folder, passes, entries, renames, repairVars,
                   coverVars, helperVars, tree, fieldVars, pc, pending, existing_files_before,
                   providerVars, album, disk, percent_posted, overall_posted, posted,
                   handled, reported, cancel_at, stages_run, late_write, hook_log,
                   controller_access>>

InitPlaylist ==
    /\ InitIdle
    /\ numbering_var = "None"
    /\ entries \in {e \in Catalogs : \A i \in 1..MaxTracks : e[i].track_number = i}
    /\ download_info \in SUBSET (1..MaxTracks)
    /\ folder = {}
    /\ passes = 0
    /\ renames = <<>>
    /\ tags = <<>>
    /\ temps = {}
    /\ checked = {}
    /\ embed_calls = {}
    /\ tool_result = NoTool
    /\ images = <<>>
    /\ deduped = FALSE
    /\ unlink_raised = {}
    /\ tree \in {files \in SUBSET AudioFiles : Cardinality(files) <= MaxListed}
    /\ playlist = <<>>
    /\ playlist_dir = None
    /\ NoHelper

NextPlaylist == CreatePlaylist

SpecPlaylist == InitPlaylist /\ [][NextPlaylist]_vars

\* C29: every path written to the playlist is relative to the directory
\* that holds the playlist and uses forward slashes, also for files in a
\* directory other than that of the first file
C29_PlaylistPathsRelative ==
    playlist_dir # None =>
        \A k \in 1..Len(playlist) :
            playlist[k].path.base = "playlist" /\ playlist[k].path.separator = "/"

\* the catalog entry a stem matches first, by containment either way
MatchesEntry(stem, i) ==
    Substr(Lower(stem), Lower(entries[i].title)) \/ Substr(Lower(entries[i].title), Lower(stem))

\* C30: the playlist lists every non-temporary audio file exactly once, in
\* ascending order of file name, titled with the title of the first catalog
\* entry that matches its stem, or with its stem when none matches
C30_PlaylistListsFilesOnceInOrder ==
    playlist_dir # None =>
        /\ {playlist[k].file : k \in 1..Len(playlist)} = {f \in tree : ~IsTemporary(f)}
        /\ \A i, j \in 1..Len(playlist) :
               /\ playlist[i].file = playlist[j].file => i = j
               /\ i < j => ~StrLess(playlist[j].file.stem \o <<".">>, playlist[i].file.stem \o <<".">>)
        /\ \A k \in 1..Len(playlist) :
               LET stem == playlist[k].file.stem
               IN  \/ /\ \A i \in download_info : ~MatchesEntry(stem, i)
                      /\ playlist[k].title = stem
                   \/ \E i \in download_info :
                          /\ MatchesEntry(stem, i)
                          /\ \A j \in download_info : j < i => ~MatchesEntry(stem, j)
                          /\ playlist[k].title = entries[i].title

\* a playlist of two files, one titled by a catalog entry that is not the
\* only one matching it and one titled by its stem, with a temporary file
\* left out
C30_Witness ==
    /\ playlist_dir # None
    /\ Len(playlist) = 2
    /\ \E f \in tree : IsTemporary(f)
    /\ \E k \in 1..Len(playlist) :
           /\ playlist[k].title # playlist[k].file.stem
           /\ Cardinality(CatalogMatches(playlist[k].file.stem, download_info)) = 2
    /\ \E k \in 1..Len(playlist) :
           CatalogMatches(playlist[k].file.stem, download_info) = {}

\* ---------------------------------------------------------------------
\* Progress of one session: the Tk main loop runs every posted callback,
\* the worker thread takes its next step, and every call into the provider
\* or the media tool returns or raises. The user's Cancel press and the
\* provider's errors may never happen.
\* ---------------------------------------------------------------------

FairSession ==
    /\ WF_vars(download_complete)
    /\ WF_vars(WorkerInit(1))
    /\ WF_vars(QuickExtract(1))
    /\ WF_vars(FullExtract(1))
    /\ WF_vars(Snapshot(1))
    /\ WF_vars(match_filter(1, SessionTotals))
    /\ WF_vars(\E d \in Events(1, SessionIndices, 0) : progress_hook(1, d))
    /\ WF_vars(ProviderCompletesFile(1))
    /\ WF_vars(ProviderPostprocess(1))
    /\ WF_vars(DownloadReturns(1))
    /\ WF_vars(ExceptKeyboardInterrupt(1))
    /\ WF_vars(Finally(1))
    /\ WF_vars(Verify(1))
    /\ WF_vars(StageRepair(1))
    /\ WF_vars(StageNumbering(1))
    /\ WF_vars(StageCoverArt(1))
    /\ WF_vars(StagePlaylist(1))
    /\ WF_vars(PostSuccess(1))

SpecSessionFair == InitSession /\ [][NextSession]_vars /\ FairSession

\* C31: a started session eventually has a completion notification handled
\* on the controller thread, and handling one re-enables the download
\* button and hides the cancel button
C31_SessionEventuallyCompletes ==
    /\ (pc[1] = "init") ~> (handled[1] >= 1)
    /\ [][handled' # handled => (download_btn' = "normal" /\ cancel_btn' = "hidden")]_vars

\* the notification of a session cancelled after the download step had
\* returned was handled
C31_Witness ==
    /\ handled[1] = 1
    /\ posted[1] = 1
    /\ cancel_at[1] # "none"
    /\ reported[1] = {"Cancelled"}
    /\ download_btn = "normal"
    /\ cancel_btn = "hidden"

\* the worker thread of a session is between its start and its return
WorkerRunning(sid) == pc[sid] \notin {"idle", "done", "closed"}

\* C32: at most one download worker runs at any time, and no completion
\* notification of one session is handled (re-enabling the download button
\* and clearing the gate) while the worker of another session runs
C32_AtMostOneWorker ==
    /\ \A a, b \in Sessions : (WorkerRunning(a) /\ WorkerRunning(b)) => a = b
    /\ \A sid \in Sessions :
           (Len(queue) > 0 /\ WorkerRunning(sid)) => Head(queue).sid = sid

\* progress_hook has handled an error event of session sid with the gate clear
ErrorStep(sid) ==
    /\ pc[sid] = "download"
    /\ phase[sid] = "fetch" /\ phase'[sid] = "filter"
    /\ ~is_cancelling

\* C33: an error event handled by progress_hook with the gate clear leaves
\* current_track, total_tracks and downloaded_files unchanged, raises nothing
\* to the provider and does not end the session: the worker stays in the
\* download step, nothing is posted to the controller and no other field
\* of the application changes.
C33_ErrorEventOnlyLogs ==
    [][\A sid \in Sessions :
          ErrorStep(sid) =>
            /\ hook_log'.fn = "progress_hook" /\ hook_log'.status = "error"
            /\ UNCHANGED <<current_track, total_tracks, downloaded_files>>
            /\ pc' = pc
            /\ UNCHANGED <<download_info, album_info_stored, is_cancelling, ydl_instance,
                           uiVars, disk, queue, posted, download_btn, cancel_btn>>]_vars

\* an error event on the second item, after the first one was fetched
C33_Witness ==
    /\ hook_log.fn = "progress_hook" /\ hook_log.status = "error" /\ ~hook_log.blocked
    /\ pc[1] = "download" /\ phase[1] = "filter"
    /\ item_no[1] = 2 /\ current_track = 1 /\ downloaded_files # {}
    /\ posted[1] = 0

\* ---- error formatting on its own ----

\* the most phrases an error text is made of
MaxPhrases == 2

\* the term lists of _format_error_message, lines 3191-3207
TermList(category) ==
    CASE category = "network" ->
        {<<"n", "e", "t", "w", "o", "r", "k">>,
         <<"c", "o", "n", "n", "e", "c", "t", "i", "o", "n">>,
         <<"t", "i", "m", "e", "o", "u", "t">>,
         <<"d", "n", "s">>,
         <<"u", "n", "r", "e", "a", "c", "h", "a", "b", "l", "e">>}
      [] category = "access" ->
        {<<"p", "e", "r", "m", "i", "s", "s", "i", "o", "n">>,
         <<"a", "c", "c", "e", "s", "s", " ", "d", "e", "n", "i", "e", "d">>,
         <<"f", "o", "r", "b", "i", "d", "d", "e", "n">>,
         <<"4", "0", "3">>,
         <<"4", "0", "1">>}
      [] category = "notfound" ->
        {<<"n", "o", "t", " ", "f", "o", "u", "n", "d">>,
         <<"4", "0", "4">>,
         <<"d", "o", "e", "s", " ", "n", "o", "t", " ", "e", "x", "i", "s", "t">>,
         <<"i", "n", "v", "a", "l", "i", "d", " ", "u", "r", "l">>}
      [] category = "disk" ->
        {<<"n", "o", " ", "s", "p", "a", "c", "e">>,
         <<"d", "i", "s", "k", " ", "f", "u", "l", "l">>,
         <<"i", "n", "s", "u", "f", "f", "i", "c", "i", "e", "n", "t", " ", "s", "p", "a", "c", "e">>}
      [] category = "format" ->
        {<<"f", "o", "r", "m", "a", "t">>,
         <<"c", "o", "d", "e", "c">>,
         <<"f", "f", "m", "p", "e", "g">>}

\* any(term in error_lower for term in [...]), for each of the term lists
TermsIn(text) ==
    {category \in Terms : \E term \in TermList(category) : Substr(term, Lower(text))}

Cancelled == <<"c", "a", "n", "c", "e", "l", "l", "e", "d">>
\* the offset at which the first "cancelled" of the text, in any case, ends
CancelledEnd(text) ==
    LET ends == {k \in 1..Len(text) : k >= Len(Cancelled)
                   /\ SubSeq(Lower(text), k - Len(Cancelled) + 1, k) = Cancelled}
    IN IF ends = {} THEN 0 ELSE CHOOSE k \in ends : \A j \in ends : k <= j

\* what Category and _format_error_message look at in a text
ErrorText(text) == [terms |-> TermsIn(text), cancelled_end |-> CancelledEnd(text)]

\* the phrases the error texts are made of
Phrases ==
    {<<"t", "i", "m", "e", "o", "u", "t">>,
     <<"A", "c", "c", "e", "s", "s", " ", "d", "e", "n", "i", "e", "d">>,
     <<"4", "0", "4">>,
     <<"n", "o">>,
     <<"s", "p", "a", "c", "e">>,
     <<"i", "n", "f", "o", "r", "m", "a", "t", "i", "o", "n">>,
     <<"U", "n", "a", "b", "l", "e">>}

RECURSIVE PhraseTexts(_)
\* the texts of at most n phrases separated by a blank
PhraseTexts(n) ==
    IF n = 0 THEN {<<>>}
    ELSE PhraseTexts(n - 1)
         \cup {IF text = <<>> THEN phrase ELSE text \o <<" ">> \o phrase :
                  text \in PhraseTexts(n - 1), phrase \in Phrases}

\* str(e) of the exception the outer handlers of download_album catch
ErrorTexts == PhraseTexts(MaxPhrases)

\* the outer handlers of download_album format the text of the exception
FormatError ==
    /\ error_msg = None
    /\ error_msg' = _format_error_message(ErrorText(exc_text), exc_unexpected)
    /\ UNCHANGED <<ctrlVars, settingVars, folder, passes, entries, renames, repairVars,
                   coverVars, playlistVars, exc_text, exc_unexpected, flacVars, previewVars, fieldVars,
                   pc, pending,
                   existing_files_before, providerVars, album, disk, percent_posted,
                   overall_posted, posted, handled, reported, cancel_at, stages_run,
                   late_write, hook_log, controller_access>>

InitErrors ==
    /\ InitIdle
    /\ download_info = {}
    /\ NoNumbering
    /\ NoRepair
    /\ NoCover
    /\ NoPlaylist
    /\ exc_text \in ErrorTexts
    /\ exc_unexpected \in BOOLEAN
    /\ error_msg = None
    /\ NoFlac
    /\ NoPreview

NextErrors == FormatError

SpecErrors == InitErrors /\ [][NextErrors]_vars

\* the categories of _format_error_message in the order it tries them
Priority == <<"network", "access", "notfound", "disk", "format">>
CategoryNames ==
    <<"Network Error", "Access Error", "Not Found", "Disk Space Error", "Format Error">>
HasTermOf(k, text) == \E term \in TermList(Priority[k]) : Substr(term, Lower(text))

\* C34: every error text gets exactly one category by fixed priority:
\* network terms first, then access, not-found, disk-space and format
\* terms; only a text with no term of any of them gets the generic
\* category, Unexpected Error when raised outside the provider and
\* Download Error otherwise.
C34_CategoryByPriority ==
    error_msg # None =>
        LET present == {k \in 1..Len(Priority) : HasTermOf(k, exc_text)}
        IN IF present = {}
           THEN error_msg.template =
                    (IF exc_unexpected THEN "Unexpected Error" ELSE "Download Error")
           ELSE \A k \in present :
                    (\A j \in present : k <= j) => error_msg.template = CategoryNames[k]

\* a text with an access term and a network term was filed under network
C34_Witness ==
    /\ error_msg # None
    /\ HasTermOf(1, exc_text) /\ HasTermOf(2, exc_text)
    /\ exc_text[1] = "A"
    /\ error_msg.template = "Network Error"

\* the tool did not replace the file in the last call of re_embed_mp3_metadata
ToolFailed(result) == result.raises # "none" \/ result.returncode # 0 \/ ~result.output

\* C35: a failure of the probe or of the re-embed step on one file does not
\* stop verify_and_fix_mp3_metadata: each step visits exactly one file not
\* visited before, every file of the set is visited in the end, the visit
\* of one file leaves every other file as it was, and a file re-embedded
\* with success gets the metadata chosen for its name whatever happened to
\* the files before it.
C35_RepairLoopSurvivesFailures ==
    /\ [][\E f \in folder \ checked :
            /\ checked' = checked \cup {f}
            /\ \A g \in folder \ {f} :
                  /\ g \in folder' /\ tags'[g] = tags[g]
                  /\ (g \in temps' <=> g \in temps)
                  /\ (g \in embed_calls' <=> g \in embed_calls)
            /\ (Embedded(f) /\ ~ToolFailed(tool_result'))
                  => (f \in folder' /\ tags'[f] = RepairMetadata(f, download_info))]_vars
    /\ <>[](folder \subseteq checked)

\* the tool raised on one file and the file visited after it was repaired
C35_Witness ==
    \E f, g \in checked :
        /\ f # g /\ f \in temps
        /\ g \in folder /\ g \in embed_calls /\ ~ToolFailed(tool_result)
        /\ tags[g].source \in {"entry", "fallback"}

\* ---------------------------------------------------------------------
\* Cover art of FLAC files (process_downloaded_files, format flac, no
\* skipping of post-processing).  thumbs maps each directory to its image
\* files as deduplicate_cover_art sees them.
\* ---------------------------------------------------------------------

\* ['.jpg', '.jpeg', '.png', '.webp']
THUMBNAIL_EXTENSIONS ==
    <<<<".", "j", "p", "g">>, <<".", "j", "p", "e", "g">>,
      <<".", "p", "n", "g">>, <<".", "w", "e", "b", "p">>>>
\* ['cover', 'album', 'folder', 'artwork'], in the order they are tried
CommonOrder ==
    <<<<"c", "o", "v", "e", "r">>, <<"a", "l", "b", "u", "m">>,
      <<"f", "o", "l", "d", "e", "r">>, <<"a", "r", "t", "w", "o", "r", "k">>>>

\* Path.suffix: the name from its last dot
Suffix(name) == SubSeq(name, Len(Stem(name)) + 1, Len(name))
IsThumbnail(name) == \E k \in 1..Len(THUMBNAIL_EXTENSIONS) : Suffix(name) = THUMBNAIL_EXTENSIONS[k]

RECURSIVE ThumbnailCandidates(_, _)
\* the names find_thumbnail_file tries, in order, from extension k on
ThumbnailCandidates(base_name, k) ==
    IF k > Len(THUMBNAIL_EXTENSIONS) THEN <<>>
    ELSE <<base_name \o THUMBNAIL_EXTENSIONS[k]>>
         \o [j \in 1..Len(CommonOrder) |-> CommonOrder[j] \o THUMBNAIL_EXTENSIONS[k]]
         \o ThumbnailCandidates(base_name, k + 1)

\* find_thumbnail_file: the files it can return for an audio file in a
\* directory; none of them means None
find_thumbnail_file(audio_file, dir) ==
    LET tried == ThumbnailCandidates(audio_file.stem, 1)
        hits == {k \in 1..Len(tried) : tried[k] \in DOMAIN dir}
    IN  IF hits # {} THEN {tried[CHOOSE k \in hits : \A j \in hits : k <= j]}
        ELSE {f \in DOMAIN dir : IsThumbnail(f)}

\* embed_cover_art_ffmpeg returns True, or False: non-zero exit, no output
\* file, or an exception
EmbedOutcomes == {"embedded", "failed"}

FlacDirs == {<<>>, <<"x">>}
FlacFiles == [dir : FlacDirs, stem : {<<"A">>, TmpStem}]
FlacImages ==
    UNION {[names -> [content : Contents, readable : {TRUE}]] :
              names \in SUBSET {CoverJpg, ArtPng}}

\* the image files of a processed directory after lines 2341-2357; locked
\* holds the files whose unlink raises
ThumbsAfter(dir, keep, locked) ==
    IF keep THEN deduplicate_cover_art(dir, locked)
    ELSE [f \in {g \in DOMAIN dir : IsThumbnail(g) => g \in locked} |-> dir[f]]

\* process_downloaded_files for FLAC, lines 2286-2359
process_downloaded_files ==
    /\ ~processed
    /\ processed' = TRUE
    /\ \E outcome \in [flac_files -> EmbedOutcomes], locked \in SUBSET {CoverJpg, ArtPng} :
         LET audio_files == {f \in flac_files : ~IsTemporary(f)}
             processed_dirs == {f.dir : f \in audio_files}
             attempted == {f \in audio_files : find_thumbnail_file(f, thumbs[f.dir]) # {}}
         IN  /\ embed_ok' = {f \in attempted : outcome[f] = "embedded"}
             /\ thumbs' = [d \in DOMAIN thumbs |->
                              IF d \in processed_dirs
                              THEN ThumbsAfter(thumbs[d], download_cover_art_var, locked)
                              ELSE thumbs[d]]
    /\ UNCHANGED <<ctrlVars, settingVars, folder, passes, entries, renames, repairVars,
                   coverVars, playlistVars, errorVars, previewVars, download_cover_art_var, flac_files,
                   fieldVars, pc, pending, existing_files_before, providerVars, album, disk,
                   percent_posted, overall_posted, posted, handled, reported, cancel_at,
                   stages_run, late_write, hook_log, controller_access>>

InitFlac ==
    /\ InitIdle
    /\ download_info = {}
    /\ NoNumbering
    /\ NoRepair
    /\ NoCover
    /\ NoPlaylist
    /\ NoError
    /\ download_cover_art_var \in BOOLEAN
    /\ flac_files \in SUBSET FlacFiles
    /\ thumbs \in [FlacDirs -> FlacImages]
    /\ embed_ok = {}
    /\ processed = FALSE
    /\ NoPreview

NextFlac == process_downloaded_files

SpecFlac == InitFlac /\ [][NextFlac]_vars

\* C36: with cover-art keeping disabled, an image file of a directory is
\* deleted only when cover art was embedded successfully into an audio file
\* of that directory; when embedding failed or was not attempted there, the
\* image files of the directory are kept.
C36_ImagesDeletedOnlyAfterEmbedding ==
    [][\A d \in DOMAIN thumbs :
          (~download_cover_art_var /\ DOMAIN thumbs'[d] # DOMAIN thumbs[d])
              => \E f \in embed_ok' : f.dir = d]_vars

MaxProbes == 3
MaxDownloads == 2
PreviewUrls == {1, 2}

nonPreviewVars == <<ctrlVars, settingVars, folder, passes, entries, renames, repairVars,
                    coverVars, playlistVars, errorVars, flacVars, fieldVars, pc, pending,
               existing_files_before, providerVars, album, disk, percent_posted,
               overall_posted, posted, handled, reported, cancel_at, stages_run,
               late_write, hook_log, controller_access>>

\* _check_url, run by the controller 200 ms after the last URL edit
_check_url(url) ==
    /\ IF url = 0
       THEN /\ current_thumbnail_url' = 0
            /\ album_art_fetching' = FALSE
            /\ UNCHANGED <<probes, probe_count>>
       ELSE /\ probe_count < MaxProbes
            /\ probe_count' = probe_count + 1
            /\ probes' = [p \in DOMAIN probes \cup {probe_count + 1} |->
                              IF p \in DOMAIN probes THEN probes[p] ELSE url]
            /\ UNCHANGED <<current_thumbnail_url, album_art_fetching>>
    /\ UNCHANGED <<art_queue, downloads, download_count, flag_owner, nonPreviewVars>>

\* the end of a metadata-probe thread: fetch_album_metadata (line 1562),
\* which also compares with current_thumbnail_url, or
\* fetch_thumbnail_from_html / fetch_thumbnail_separately (1610, 1688)
ProbeEnds(p, by_metadata, found) ==
    /\ p \in DOMAIN probes
    /\ probes' = [q \in DOMAIN probes \ {p} |-> probes[q]]
    /\ IF /\ found
          /\ ~album_art_fetching
          /\ (by_metadata => probes[p] # current_thumbnail_url)
       THEN /\ current_thumbnail_url' = probes[p]
            /\ art_queue' = Append(art_queue, probes[p])
       ELSE UNCHANGED <<current_thumbnail_url, art_queue>>
    /\ UNCHANGED <<album_art_fetching, downloads, probe_count, download_count, flag_owner,
                   nonPreviewVars>>

\* fetch_and_display_album_art(thumbnail_url), a callback on the controller
fetch_and_display_album_art ==
    /\ art_queue # <<>>
    /\ art_queue' = Tail(art_queue)
    /\ IF album_art_fetching
       THEN UNCHANGED <<album_art_fetching, downloads, download_count, flag_owner>>
       ELSE /\ download_count < MaxDownloads
            /\ album_art_fetching' = TRUE
            /\ download_count' = download_count + 1
            /\ downloads' = downloads \cup {download_count + 1}
            /\ flag_owner' = download_count + 1
    /\ UNCHANGED <<current_thumbnail_url, probes, probe_count, nonPreviewVars>>

\* the end of download_and_display, with the image shown or not: the
\* thread clears the flag (lines 1745, 1754, 1758)
download_and_display(d) ==
    /\ d \in downloads
    /\ downloads' = downloads \ {d}
    /\ album_art_fetching' = FALSE
    /\ UNCHANGED <<current_thumbnail_url, probes, art_queue, probe_count, download_count,
                   flag_owner, nonPreviewVars>>

InitPreview ==
    /\ InitIdle
    /\ download_info = {}
    /\ NoNumbering
    /\ NoRepair
    /\ NoCover
    /\ NoPlaylist
    /\ NoError
    /\ NoFlac
    /\ NoPreview

NextPreview ==
    \/ \E url \in {0} \cup PreviewUrls : _check_url(url)
    \/ \E p \in 1..MaxProbes, by_metadata \in BOOLEAN, found \in BOOLEAN :
          ProbeEnds(p, by_metadata, found)
    \/ fetch_and_display_album_art
    \/ \E d \in 1..MaxDownloads : download_and_display(d)

SpecPreview == InitPreview /\ [][NextPreview]_vars

\* C38: at most one album-art download is in flight at any time, no download
\* thread is started while album_art_fetching is true, and the flag is
\* cleared only by the download that set it.
C38_AtMostOnePreviewDownload ==
    /\ [](Cardinality(downloads) <= 1)
    /\ [][/\ (album_art_fetching /\ ~album_art_fetching')
                => flag_owner \in downloads \ downloads'
          /\ downloads' \ downloads # {} => ~album_art_fetching]_vars

====
